---------------------------- MODULE Spec2Model ----------------------------
(***************************************************************************)
(* The keep-alive agent of lib/agent.js (internals.HttpAgent and           *)
(* internals.HttpsAgent) on top of the platform's Http.Agent.              *)
(*                                                                         *)
(* The agent keeps, per destination name "host:port[:localAddress]", a     *)
(* stack of idle sockets (_idleSockets).  The platform agent it inherits   *)
(* from keeps the list of open sockets per name (sockets) and the queue of *)
(* requests that wait because maxSockets is reached (requests).            *)
(*                                                                         *)
(* The handlers free, addRequest, nextIdleSocket and removeSocket are      *)
(* operators over the agent's fields; the actions are the events that call *)
(* them: a request being issued, a response ending on a keep-alive socket  *)
(* (the socket emits 'free'), a socket being destroyed out of band, and a  *)
(* socket emitting 'close' or 'agentRemove'.                               *)
(*                                                                         *)
(* The redirect chain of one call of request (SpecRedirect): the request   *)
(* of an attempt is written, a stream payload through the Tap that keeps a *)
(* copy of it; the response is handed to the caller, fails the chain, or   *)
(* is followed by a redirected attempt, after the beforeRedirect function  *)
(* has called next when there is one.                                      *)
(***************************************************************************)
EXTENDS Integers, Sequences, FiniteSets, TLC

\* ---------------------------------------------------------------- bounds

\* Number of request objects that can exist at the same time.
NumRequests == 3

\* The platform agent's maxSockets option (open sockets per name) in the
\* runs with one destination.
MaxSockets == 2

\* The maxFreeSockets option the agent is created with in the capped runs.
MaxFreeSockets == 1

\* Longest idle time, in milliseconds, the clock of SpecTimeout counts to.
MaxIdle == 2

\* The freeSocketsTimeout option the agent is created with when it is set.
FreeSocketsTimeout == 1

\* ------------------------------------------------------------- constants

\* internals.defaults.maxFreeSockets
DefaultMaxFreeSockets == 256

Hosts == {"a"}
Ports == {"80"}
\* "" stands for an undefined localAddress
LocalAddresses == {"", "lo"}

Destinations == Hosts \X Ports \X LocalAddresses

Requests == 1..NumRequests
NoRequest == 0

NoSocket == 0

\* the destination of a request that is not in flight or pending
NoDestination == <<"", "", "">>

VARIABLES
    secure,        \* TRUE: the agent is an HttpsAgent, FALSE: an HttpAgent
    options,       \* this.options: the settings the agent was created with
    idleSockets,   \* this._idleSockets: name -> stack of sockets (top is last)
    sockets,       \* this.sockets (platform): name -> the open sockets, as a
                   \* set: the platform only appends to the list, takes a
                   \* socket out of it and reads its length
    requests,      \* this.requests (platform): name -> pending requests
    onSocket,      \* request -> the socket request.onSocket() gave it
    destroyed,     \* socket.destroyed
    pair,          \* socket.pair: "none", "nossl" (pair.ssl is null) or "ssl"
    idleTime,      \* milliseconds since the socket was last pushed on a stack
    target,        \* request -> the destination of the request
    arrival,       \* the pending requests, in the order they first had to wait
    last,          \* the last event handled and what the handlers did in it
    maxSockets,    \* this.maxSockets (platform): open sockets per name
    peers,         \* the destinations the application sends requests to
    \* the redirect chain of one call of request
    state,         \* "IDLE", "SENDING", "AWAITING_RESPONSE", "REDIRECTING"
                   \* (beforeRedirect is running) or "TERMINAL"
    call,          \* the method, uri and options the caller passed
    attempt,       \* the attempt in flight: its number, method, uri, options
                   \* and the body written to its request so far
    previous,      \* the attempt before it
    stream,        \* the chunks not yet read from the payload stream
    tap,           \* collector.buffers: the Tap the payload is piped through
    shadow,        \* the copy of the streamed payload, once collected
    res,           \* the last response received, and how many were
    hook,          \* the arguments of the beforeRedirect call that is running
    outcomes,      \* what the caller was handed: responses and errors
    log,           \* the last step of the chain and what the hooks did
    \* the requests as their callers see them
    reqs,          \* request -> its timeout timer, its aborted flag, the
                   \* 'error' event it has yet to emit, and what its caller
                   \* was handed
    \* one call of read
    reader,        \* the read: its state, its timer, the chunks recorded and
                   \* what the caller was handed
    incoming,      \* the chunks the stream has yet to emit
    clock          \* milliseconds since read was called

agentVars == <<secure, options, idleSockets, sockets, requests, onSocket,
               destroyed, pair, idleTime, target, arrival, last, maxSockets,
               peers>>

redirectVars == <<state, call, attempt, previous, stream, tap, shadow, res,
                  hook, outcomes, log>>

issuerVars == <<reqs>>

readVars == <<reader, incoming, clock>>

vars == <<secure, options, idleSockets, sockets, requests, onSocket,
          destroyed, pair, idleTime, target, arrival, last, maxSockets, peers,
          state, call, attempt, previous, stream, tap, shadow, res,
          hook, outcomes, log, reqs, reader, incoming, clock>>

\* ------------------------------------------------------- pure functions

\* buildNameKey without the localAddress
buildNameKeyNoLocal(host, port, localAddress) == host \o ":" \o port

\* internals.buildNameKey
buildNameKey(host, port, localAddress) ==
    LET name == host \o ":" \o port
    IN  IF localAddress # "" THEN name \o ":" \o localAddress ELSE name

NameOf(d) == buildNameKey(d[1], d[2], d[3])

Names == { NameOf(d) : d \in Destinations }

\* Socket objects.  A socket is a connection to one destination; there is,
\* for each destination, one more than can be open at once, so that the
\* socket created inside removeSocket is never the object being removed.
\* The sockets to the destination without a localAddress are 11, 12, ...,
\* those to the destination with one 21, 22, ...
SocketsOf(d) ==
    { 10 * (IF d[3] = "" THEN 1 ELSE 2) + i : i \in 1..(MaxSockets + 1) }

Sockets == UNION { SocketsOf(d) : d \in Destinations }

\* the destination a socket is connected to
DestOf(s) == CHOOSE d \in Destinations : s \in SocketsOf(d)

Range(seq) == { seq[i] : i \in 1..Len(seq) }

\* Array.prototype.indexOf, 1-based; 0 when absent (-1 in the code)
indexOf(seq, x) ==
    IF x \in Range(seq)
    THEN CHOOSE i \in 1..Len(seq) : seq[i] = x /\ \A j \in 1..(i - 1) : seq[j] # x
    ELSE 0

\* Array.prototype.splice(index, 1)
splice(seq, i) == SubSeq(seq, 1, i - 1) \o SubSeq(seq, i + 1, Len(seq))


\* ------------------------------------------------ the agent's handlers
\* A handler is an operator from the agent's fields to the agent's fields.
\* The argument a is a record of idleSockets, sockets, requests, onSocket,
\* and of four fields that are no state of the agent: taken (the socket
\* objects that exist, so that createSocket makes a new one), discarded (how
\* many unusable sockets nextIdleSocket dropped during the event), retained
\* (whether free pushed its socket on the idle stack) and pooled (the idle
\* socket addRequest passed to request.onSocket, if any).
\* socket._requestCount (agent.js line 49) is written and never read by
\* the agent; it is not part of the model.

\* internals.HttpAgent.prototype.isSocketUsable
HttpIsSocketUsable(socket) == ~destroyed[socket]

\* internals.HttpsAgent.prototype.isSocketUsable
HttpsIsSocketUsable(socket) == pair[socket] # "none" /\ pair[socket] = "ssl"

\* this.isSocketUsable: the prototype chain picks the override
isSocketUsable(socket) ==
    IF secure THEN HttpsIsSocketUsable(socket) ELSE HttpIsSocketUsable(socket)

\* popUsable without the health check: the top of the stack, whatever it is
popAny(stack, dropped) ==
    IF stack = <<>>
    THEN [socket |-> NoSocket, stack |-> <<>>, dropped |-> dropped]
    ELSE [socket |-> stack[Len(stack)],
          stack |-> SubSeq(stack, 1, Len(stack) - 1), dropped |-> dropped]

\* the loop of nextIdleSocket: pop until a usable socket or the stack is empty
RECURSIVE popUsable(_, _)
popUsable(stack, dropped) ==
    IF stack = <<>>
    THEN [socket |-> NoSocket, stack |-> <<>>, dropped |-> dropped]
    ELSE LET socket == stack[Len(stack)]
             rest   == SubSeq(stack, 1, Len(stack) - 1)
         IN  IF isSocketUsable(socket)
             THEN [socket |-> socket, stack |-> rest, dropped |-> dropped]
             ELSE popUsable(rest, dropped + 1)

\* nextIdleSocket that peeks: the socket handed out stays on the stack
peekIdleSocket(a, name) ==
    IF name \notin DOMAIN a.idleSockets
    THEN [socket |-> NoSocket, agent |-> a]
    ELSE LET p == popUsable(a.idleSockets[name], 0)
         IN  [socket |-> p.socket,
              agent  |-> [a EXCEPT !.idleSockets[name] =
                                       IF p.socket # NoSocket
                                       THEN Append(p.stack, p.socket)
                                       ELSE p.stack,
                                   !.discarded = @ + p.dropped]]

\* internals.HttpAgent.prototype.nextIdleSocket
nextIdleSocket(a, name) ==
    IF name \notin DOMAIN a.idleSockets
    THEN [socket |-> NoSocket, agent |-> a]
    ELSE LET p == popUsable(a.idleSockets[name], 0)
         IN  [socket |-> p.socket,
              agent  |-> [a EXCEPT !.idleSockets[name] = p.stack,
                                   !.discarded = @ + p.dropped]]

\* Http.Agent.prototype.createSocket (platform): a new socket object, added
\* to sockets[name]
NewSocket(a, host, port, localAddress) ==
    LET new == SocketsOf(<<host, port, localAddress>>) \ a.taken
    IN  CHOOSE s \in new : \A t \in new : s <= t

createSocket(a, name, host, port, localAddress) ==
    [a EXCEPT !.sockets[name] = @ \cup {NewSocket(a, host, port, localAddress)},
              !.taken = @ \cup {NewSocket(a, host, port, localAddress)}]

\* Http.Agent.prototype.addRequest (platform): a new connection below
\* maxSockets, the pending queue otherwise
AgentAddRequest(a, request, host, port, localAddress) ==
    LET name == buildNameKey(host, port, localAddress)
    IN  IF Cardinality(a.sockets[name]) < maxSockets
        THEN [createSocket(a, name, host, port, localAddress)
                  EXCEPT !.onSocket[request] = NewSocket(a, host, port, localAddress)]
        ELSE [a EXCEPT !.requests[name] = Append(@, request)]

\* internals.HttpAgent.prototype.addRequest
addRequest(a, request, host, port, localAddress) ==
    LET name == buildNameKey(host, port, localAddress)
        n    == nextIdleSocket(a, name)
    IN  IF n.socket # NoSocket
        THEN [n.agent EXCEPT !.onSocket[request] = n.socket,
                             !.pooled = n.socket]
        ELSE AgentAddRequest(n.agent, request, host, port, localAddress)

\* freePush with unshift in place of push: the socket goes to the bottom
freeUnshift(a, socket, name) ==
    IF isSocketUsable(socket)
    THEN LET b == [a EXCEPT !.idleSockets =
                       IF name \in DOMAIN @ THEN @ ELSE (name :> <<>>) @@ @]
         IN  IF Len(b.idleSockets[name]) < options.maxFreeSockets
             THEN [b EXCEPT !.idleSockets[name] = <<socket>> \o @,
                            !.retained = TRUE]
             ELSE b
    ELSE a

\* freePush without the maxFreeSockets test
freeNoCap(a, socket, name) ==
    IF isSocketUsable(socket)
    THEN LET b == [a EXCEPT !.idleSockets =
                       IF name \in DOMAIN @ THEN @ ELSE (name :> <<>>) @@ @]
         IN  [b EXCEPT !.idleSockets[name] = Append(@, socket),
                       !.retained = TRUE]
    ELSE a

\* internals.HttpAgent.prototype.free, lines 45-56: return the socket to the
\* idle pool when it is still usable and the stack is below maxFreeSockets
freePush(a, socket, name) ==
    IF isSocketUsable(socket)
    THEN LET b == [a EXCEPT !.idleSockets =
                       IF name \in DOMAIN @ THEN @ ELSE (name :> <<>>) @@ @]
         IN  IF Len(b.idleSockets[name]) < options.maxFreeSockets
             THEN [b EXCEPT !.idleSockets[name] = Append(@, socket),
                            !.retained = TRUE]
             ELSE b
    ELSE a

\* freePending that leaves the pending requests where they are
freeNoPending(a, name, host, port, localAddress) == a

\* freePending that opens a connection for the pending request without
\* looking at the idle stack
freePendingConnect(a, name, host, port, localAddress) ==
    IF a.requests[name] # <<>>
    THEN LET nextRequest == Head(a.requests[name])
         IN  AgentAddRequest([a EXCEPT !.requests[name] = Tail(@)],
                             nextRequest, host, port, localAddress)
    ELSE a

\* internals.HttpAgent.prototype.free, lines 58-62: send the next pending
\* request of the name off
freePending(a, name, host, port, localAddress) ==
    IF a.requests[name] # <<>>
    THEN LET nextRequest == Head(a.requests[name])
         IN  addRequest([a EXCEPT !.requests[name] = Tail(@)],
                        nextRequest, host, port, localAddress)
    ELSE a

\* internals.HttpAgent.prototype.free
free(a, socket, host, port, localAddress) ==
    LET name == buildNameKey(host, port, localAddress)
    IN  freePending(freePush(a, socket, name), name, host, port, localAddress)

\* Http.Agent.prototype.removeSocket (platform): drop the socket from
\* sockets[name]; with a pending request, open a new socket and emit 'free'
\* on it, which runs the agent's free listener
AgentRemoveSocket(a, socket, name, host, port, localAddress) ==
    LET b == [a EXCEPT !.sockets[name] = @ \ {socket}]
    IN  IF b.requests[name] # <<>>
        THEN free(createSocket(b, name, host, port, localAddress),
                  NewSocket(b, host, port, localAddress), host, port, localAddress)
        ELSE b

\* removeSocket that only delegates to the platform
removeSocketNoSplice(a, socket, name, host, port, localAddress) ==
    AgentRemoveSocket(a, socket, name, host, port, localAddress)

\* internals.HttpAgent.prototype.removeSocket
removeSocket(a, socket, name, host, port, localAddress) ==
    LET b == IF name \in DOMAIN a.idleSockets
                /\ indexOf(a.idleSockets[name], socket) # 0
             THEN [a EXCEPT !.idleSockets[name] =
                       splice(@, indexOf(a.idleSockets[name], socket))]
             ELSE a
    IN  AgentRemoveSocket(b, socket, name, host, port, localAddress)


\* ------------------------------------------- the redirect chain: its data

\* The largest redirects option a caller passes.
MaxRedirects == 1

\* The most chunks a payload stream delivers.
MaxChunks == 2

\* The attempts a chain is followed for: one more than any budget a caller
\* passes needs, so that a budget raised along the way shows.
MaxAttempts == MaxRedirects + 2

Methods == {"GET", "POST"}

\* the status codes the server answers with
StatusCodes == {200, 301, 302, 303, 307, 308}

Origins == {"http://a", "https://b"}
Paths == {"/", "/r"}
Uris == { o \o q : o \in Origins, q \in Paths }

\* the location header of a response: "" stands for no location header
Locations == {"", "/r", "https://b/"}

\* the x-test header of a request: "" stands for no such header
Headers == {"", "Modified"}

\* the i-th chunk of the caller's payload stream
Chunk(i) == <<i, 10 + i>>

NoPayload == [kind |-> "none", data |-> <<>>]
StringPayload == [kind |-> "string", data |-> <<7, 8, 9>>]
StreamPayload == [kind |-> "stream", data |-> <<>>]

\* the redirects option: <<>> stands for unset or false, <<n>> for the number n
NoRedirects == <<>>

\* the agent option: not given, null, false (no pooling) or an agent of the
\* caller's own
AgentOptions == {"unset", "null", "false", "custom"}

\* the rejectUnauthorized option: not given, or one of the two booleans
RejectUnauthorizedOptions == {"unset", "true", "false"}

\* the agents a request is handed to: the three of wreck.agents, the
\* caller's own, and "none" for a request made without pooling
Agents == {"http", "https", "httpsAllowUnauthorized", "custom", "none"}

\* the baseUrl option: "" stands for none
BaseUrls == {"", "http://a"}

NoOptions ==
    [redirects |-> NoRedirects, redirectMethod |-> "", redirect303 |-> FALSE,
     beforeRedirect |-> FALSE, headers |-> "", payload |-> NoPayload,
     redirected |-> FALSE, agent |-> "unset", rejectUnauthorized |-> "unset",
     baseUrl |-> ""]

NoAttempt ==
    [n |-> 0, method |-> "", uri |-> "", options |-> NoOptions, body |-> <<>>,
     agent |-> ""]

\* what the redirected function was last called with: req is the number of
\* the attempt whose request it was handed
NotObserved == [statusCode |-> 0, location |-> "", req |-> 0]

NoResponse == [n |-> 0, statusCode |-> 0, location |-> ""]

NoHook ==
    [pending |-> FALSE, redirectMethod |-> "", statusCode |-> 0,
     location |-> "", headers |-> "", redirectOptions |-> NoOptions,
     source |-> <<>>]

\* a request object that has not been created: no timeout option, no timer,
\* not aborted, no 'error' event due, nothing handed to a caller
NoClientRequest ==
    [created |-> FALSE, timeout |-> 0, timer |-> FALSE, aborted |-> FALSE,
     by |-> "", hangUp |-> FALSE, delivered |-> <<>>, events |-> FALSE,
     emitted |-> <<>>]

\* read has not been called; timer is <<>> when no timer runs, else <<ms>>
\* for a timer that goes off ms milliseconds after the call
NoRead ==
    [state |-> "IDLE", timeout |-> 0, timer |-> <<>>, buffers |-> <<>>,
     results |-> <<>>, maxBytes |-> 0, json |-> "false", length |-> 0,
     source |-> [contentType |-> "", destroy |-> FALSE, destroyed |-> FALSE],
     stream |-> <<>>, by |-> "", emitted |-> [isBoom |-> FALSE,
                                              message |-> "",
                                              statusCode |-> 0]]

\* no call of request has been made
NoChain ==
    /\ state = "IDLE"
    /\ call = [method |-> "", uri |-> "", options |-> NoOptions]
    /\ attempt = NoAttempt
    /\ previous = NoAttempt
    /\ stream = <<>>
    /\ tap = <<>>
    /\ shadow = <<>>
    /\ res = NoResponse
    /\ hook = NoHook
    /\ outcomes = <<>>
    /\ log = [op |-> "new", change |-> [field |-> "none", value |-> <<>>],
              rewritten |-> FALSE, calls |-> 0,
              redirected |-> 0, observed |-> NotObserved,
              addRequest |-> [a \in Agents |-> 0], aborted |-> FALSE]
    /\ reqs = [r \in Requests |-> NoClientRequest]
    /\ reader = NoRead
    /\ incoming = <<>>
    /\ clock = 0

\* ------------------------------------------------------------ the events

\* Hoek.applyToDefaults(internals.defaults, options): a given option wins,
\* maxFreeSockets falls back to its default (0 stands for an option not given)
applyToDefaults(given) ==
    [maxFreeSockets     |-> IF given.maxFreeSockets # 0
                            THEN given.maxFreeSockets
                            ELSE DefaultMaxFreeSockets,
     freeSocketsTimeout |-> given.freeSocketsTimeout]

\* the socket objects that exist: those the platform agent lists
Open == UNION { sockets[name] : name \in Names }

Idle == UNION { Range(idleSockets[name]) : name \in DOMAIN idleSockets }

Queued == UNION { Range(requests[name]) : name \in Names }

\* a socket that destroy() has been called on
Dead(s) == IF secure THEN pair[s] # "ssl" ELSE destroyed[s]

\* the state of a socket object that has just been created
FreshPair == IF secure THEN "ssl" ELSE "none"

Cur ==
    [idleSockets |-> idleSockets, sockets |-> sockets, requests |-> requests,
     onSocket |-> onSocket, taken |-> Open, discarded |-> 0,
     retained |-> FALSE, pooled |-> NoSocket]

IdleOf(a) == UNION { Range(a.idleSockets[name]) : name \in DOMAIN a.idleSockets }

\* the agent's fields after an event, the requests that are over, the clock
\* of the idle sockets, and the record of the event
Commit(a, over, op, d, socket, request) ==
    /\ idleSockets' = a.idleSockets
    /\ sockets' = a.sockets
    /\ requests' = a.requests
    /\ onSocket' = [r \in Requests |->
                       IF a.onSocket[r] \in over THEN NoSocket ELSE a.onSocket[r]]
    /\ target' = [r \in Requests |->
                     IF \/ a.onSocket[r] \notin over \cup {NoSocket}
                        \/ \E n \in Names : r \in Range(a.requests[n])
                     THEN IF op = "addRequest" /\ r = request
                          THEN d
                          ELSE target[r]
                     ELSE NoDestination]
    /\ idleTime' = [s \in Sockets |->
                       IF s \in IdleOf(a) /\ s \in Idle THEN idleTime[s] ELSE 0]
    /\ arrival' =
          LET pending == UNION { Range(a.requests[n]) : n \in Names }
          IN  SelectSeq(arrival, LAMBDA r : r \in pending)
                  \o (IF op = "addRequest" /\ request \in pending
                      THEN <<request>> ELSE <<>>)
    /\ last' = [op |-> op, name |-> NameOf(d), socket |-> socket,
                request |-> request, discarded |-> a.discarded,
                retained |-> a.retained, pooled |-> a.pooled,
                wasIdle |-> socket \in Idle]
    /\ UNCHANGED redirectVars
    /\ UNCHANGED readVars

InitAgent(kinds, timeouts) ==
    /\ secure \in kinds
    /\ options \in { applyToDefaults([maxFreeSockets |-> m, freeSocketsTimeout |-> ms]) :
                        m \in {0, MaxFreeSockets}, ms \in timeouts }
    /\ idleSockets = <<>>
    /\ sockets = [name \in Names |-> {}]
    /\ requests = [name \in Names |-> <<>>]
    /\ onSocket = [r \in Requests |-> NoSocket]
    /\ target = [r \in Requests |-> NoDestination]
    /\ arrival = <<>>
    /\ destroyed = [s \in Sockets |-> FALSE]
    /\ pair = [s \in Sockets |-> FreshPair]
    /\ idleTime = [s \in Sockets |-> 0]
    /\ last = [op |-> "new", name |-> "", socket |-> NoSocket,
               request |-> NoRequest, discarded |-> 0, retained |-> FALSE,
                pooled |-> NoSocket, wasIdle |-> FALSE]

\* One destination, several sockets per name, an HttpAgent or an HttpsAgent.
Init ==
    /\ InitAgent(BOOLEAN, {0})
    /\ maxSockets = MaxSockets
    /\ peers = { <<"a", "80", "">> }
    /\ NoChain

\* Two destinations (with and without a localAddress), one socket per name,
\* an HttpAgent.
InitKeys ==
    /\ InitAgent({FALSE}, {0})
    /\ maxSockets = 1
    /\ peers = Destinations
    /\ NoChain

\* One destination, one socket per name, an HttpAgent created with or
\* without the freeSocketsTimeout option.
InitTimeout ==
    /\ InitAgent({FALSE}, {0, FreeSocketsTimeout})
    /\ maxSockets = 1
    /\ peers = { <<"a", "80", "">> }
    /\ NoChain

\* the request objects in flight or pending
Live == Queued \cup { r \in Requests : onSocket[r] # NoSocket }

\* A request is issued for a destination: the new ClientRequest r calls
\* agent.addRequest(request, host, port, localAddress).
Request(r, d) ==
    /\ d \in peers
    /\ r \notin Live
    /\ \A q \in Requests \ Live : r <= q
    /\ LET a == addRequest(Cur, r, d[1], d[2], d[3])
       IN  Commit(a, {}, "addRequest", d, NoSocket, r)
    /\ UNCHANGED <<secure, options, destroyed, pair, maxSockets, peers>>
    /\ UNCHANGED issuerVars

\* The response of request r ends on a keep-alive connection: the request is
\* over and its socket emits 'free', which the agent's listener handles.
ResponseEnd(r) ==
    /\ onSocket[r] # NoSocket
    /\ LET s == onSocket[r]
           d == DestOf(s)
           a == free([Cur EXCEPT !.onSocket[r] = NoSocket], s, d[1], d[2], d[3])
       IN  Commit(a, {}, "free", d, s,
                  IF requests[NameOf(d)] # <<>>
                  THEN Head(requests[NameOf(d)]) ELSE NoRequest)
    /\ UNCHANGED <<secure, options, destroyed, pair, maxSockets, peers>>
    /\ UNCHANGED issuerVars

\* A socket is destroyed out of band (by the peer, a timeout handler, ...).
\* A plain socket sets its destroyed flag; a TLS socket nulls out its pair's
\* ssl field and sets no flag.
Destroy(s) ==
    /\ s \in Open
    /\ ~Dead(s)
    /\ IF secure
       THEN pair' = [pair EXCEPT ![s] = "nossl"]
            /\ UNCHANGED destroyed
       ELSE destroyed' = [destroyed EXCEPT ![s] = TRUE]
            /\ UNCHANGED pair
    /\ last' = [op |-> "destroy", name |-> NameOf(DestOf(s)), socket |-> s,
                request |-> NoRequest, discarded |-> 0, retained |-> FALSE,
                pooled |-> NoSocket, wasIdle |-> FALSE]
    /\ UNCHANGED <<secure, options, idleSockets, sockets, requests, onSocket,
                   idleTime, target, arrival, maxSockets, peers>>
    /\ UNCHANGED redirectVars
    /\ UNCHANGED <<issuerVars, readVars>>

\* the call of removeSocket by a listener of the socket's 'close' or
\* 'agentRemove' event; the request that held the socket is over
Removed(s, op) ==
    LET d == DestOf(s)
        a == removeSocket(Cur, s, NameOf(d), d[1], d[2], d[3])
    IN  /\ Commit(a, {s}, op, d, s,
                  IF requests[NameOf(d)] # <<>>
                  THEN Head(requests[NameOf(d)]) ELSE NoRequest)
        /\ destroyed' = [destroyed EXCEPT ![s] = FALSE]
        /\ pair' = [pair EXCEPT ![s] = FreshPair]
        /\ UNCHANGED <<secure, options, maxSockets, peers>>
        /\ UNCHANGED issuerVars

\* A destroyed socket emits 'close'.
Close(s) ==
    /\ s \in Open
    /\ Dead(s)
    /\ Removed(s, "close")

\* The socket of a request in flight emits 'agentRemove' (an upgrade): the
\* connection leaves the agent.
AgentRemove(s) ==
    /\ s \in Open
    /\ ~Dead(s)
    /\ \E r \in Requests : onSocket[r] = s
    /\ Removed(s, "agentRemove")

\* One millisecond passes for the sockets on the idle stacks.
Tick ==
    /\ \E s \in Idle : idleTime[s] < MaxIdle
    /\ idleTime' = [s \in Sockets |->
                       IF s \in Idle /\ idleTime[s] < MaxIdle
                       THEN idleTime[s] + 1 ELSE idleTime[s]]
    /\ last' = [op |-> "tick", name |-> "", socket |-> NoSocket,
                request |-> NoRequest, discarded |-> 0, retained |-> FALSE,
                pooled |-> NoSocket, wasIdle |-> FALSE]
    /\ UNCHANGED <<secure, options, idleSockets, sockets, requests, onSocket,
                   destroyed, pair, target, arrival, maxSockets, peers>>
    /\ UNCHANGED redirectVars
    /\ UNCHANGED <<issuerVars, readVars>>

Next ==
    \/ \E r \in Requests, d \in Destinations : Request(r, d)
    \/ \E r \in Requests : ResponseEnd(r)
    \/ \E s \in Sockets : Destroy(s)
    \/ \E s \in Sockets : Close(s)
    \/ \E s \in Sockets : AgentRemove(s)

Spec == Init /\ [][Next]_vars

\* 'free' is emitted once more for a socket that is on an idle stack
\* already (followed while the stack is no longer than maxSockets).
FreeAgain(s) ==
    /\ s \in Idle
    /\ Len(idleSockets[NameOf(DestOf(s))]) <= maxSockets
    /\ LET d == DestOf(s)
           a == free(Cur, s, d[1], d[2], d[3])
       IN  Commit(a, {}, "free", d, s,
                  IF requests[NameOf(d)] # <<>>
                  THEN Head(requests[NameOf(d)]) ELSE NoRequest)
    /\ UNCHANGED <<secure, options, destroyed, pair, maxSockets, peers>>
    /\ UNCHANGED issuerVars

NextFreeAgain ==
    \/ Next
    \/ \E s \in Sockets : FreeAgain(s)

SpecFreeAgain == InitTimeout /\ [][NextFreeAgain]_vars

SpecKeys == InitKeys /\ [][Next]_vars

NextTimeout ==
    \/ Next
    \/ Tick

SpecTimeout == InitTimeout /\ [][NextTimeout]_vars

TypeOK ==
    /\ secure \in BOOLEAN
    /\ DOMAIN idleSockets \subseteq Names
    /\ \A name \in DOMAIN idleSockets : Range(idleSockets[name]) \subseteq Sockets
    /\ \A name \in Names : sockets[name] \subseteq Sockets
    /\ \A name \in Names : Range(requests[name]) \subseteq Requests
    /\ onSocket \in [Requests -> Sockets \cup {NoSocket}]
    /\ Idle \subseteq Open
    /\ \A r \in Requests : onSocket[r] # NoSocket => onSocket[r] \in Open


\* ------------------------------------------ the redirect chain: its steps

\* the bytes of a sequence of chunks, in order
RECURSIVE Concat(_)
Concat(chunks) ==
    IF chunks = <<>> THEN <<>> ELSE Head(chunks) \o Concat(Tail(chunks))

\* new Payload(buffers): a readable stream that delivers the bytes of the
\* buffers as one chunk
Payload(buffers) ==
    IF Concat(buffers) = <<>> THEN <<>> ELSE <<Concat(buffers)>>

\* Tap._transform that forgets the chunk
transformForget(buffers, chunk) ==
    [buffers |-> buffers, out |-> chunk]

\* Tap._transform(chunk, encoding, next): records the chunk and passes it on
transform(buffers, chunk) ==
    [buffers |-> Append(buffers, chunk), out |-> chunk]

\* Tap.collect()
collect(buffers) == Payload(buffers)

\* the redirects option as a number
Budget(opts) == IF opts.redirects = NoRedirects THEN 0 ELSE opts.redirects[1]

\* redirects were asked for
Requested(opts) == opts.redirects # NoRedirects

\* the redirects option a chain starts with, a 0 taken as a used-up budget
startBudgetAsGiven(redirects) == redirects

\* the redirects option a chain starts with: unset, false and 0 all mean
\* "do not follow"
startBudget(redirects) ==
    IF redirects = <<0>> THEN NoRedirects ELSE redirects

\* the method of the redirected request that follows every 303
redirectMethodAlways303(code, method, opts) ==
    CASE code \in {301, 302} ->
             IF opts.redirectMethod # "" THEN opts.redirectMethod ELSE method
      [] code = 303 -> "GET"
      [] code \in {307, 308} -> method
      [] OTHER -> ""

\* the method of the redirected request that downgrades on 301 and 302
redirectMethodDowngrade(code, method, opts) ==
    CASE code \in {301, 302} ->
             IF opts.redirectMethod # "" THEN opts.redirectMethod ELSE "GET"
      [] code = 303 -> IF opts.redirect303 THEN "GET" ELSE ""
      [] code \in {307, 308} -> method
      [] OTHER -> ""

\* The method of the redirected request, "" when the status is not one to
\* follow.
redirectMethod(code, method, opts) ==
    CASE code \in {301, 302} ->
             IF opts.redirectMethod # "" THEN opts.redirectMethod ELSE method
      [] code = 303 -> IF opts.redirect303 THEN "GET" ELSE ""
      [] code \in {307, 308} -> method
      [] OTHER -> ""

\* every request is sent with the payload of its options
payloadSupportedAnyMethod(method, opts) ==
    opts.payload.kind # "none"

\* a request of this method is sent with the payload of its options
payloadSupported(method, opts) ==
    /\ method \notin {"GET", "HEAD"}
    /\ opts.payload.kind # "none"

\* the payload stream of the attempt is piped through a Tap
Tapped(a) ==
    /\ Budget(a.options) > 0
    /\ payloadSupported(a.method, a.options)
    /\ a.options.payload.kind = "stream"

IsAbsolute(location) == location \in Uris

OriginOf(uri) == CHOOSE o \in Origins : \E q \in Paths : uri = o \o q

\* the uri a location header leads to from the uri of the current attempt
resolve(uri, location) ==
    IF IsAbsolute(location) THEN location ELSE OriginOf(uri) \o location

\* what the controller does with a response, following whenever it can
classifyNoBudget(opts, method, statusCode, location) ==
    LET m == redirectMethod(statusCode, method, opts)
    IN  CASE m = "" ->
                 [kind |-> "response", err |-> "", method |-> ""]
          [] location = "" ->
                 [kind |-> "error", method |-> "",
                  err |-> "Received redirection without location"]
          [] OTHER ->
                 [kind |-> "follow", err |-> "", method |-> m]

\* what the controller does with a response, following a redirect that has
\* no location
classifyNoLocation(opts, method, statusCode, location) ==
    LET m == redirectMethod(statusCode, method, opts)
    IN  CASE ~Requested(opts) \/ m = "" ->
                 [kind |-> "response", err |-> "", method |-> ""]
          [] Budget(opts) = 0 ->
                 [kind |-> "error", method |-> "",
                  err |-> "Maximum redirections reached"]
          [] OTHER ->
                 [kind |-> "follow", err |-> "", method |-> m]

\* What the controller does with the response to an attempt made with the
\* options opts: hand it to the caller, fail, or follow it with a method.
classify(opts, method, statusCode, location) ==
    LET m == redirectMethod(statusCode, method, opts)
    IN  CASE ~Requested(opts) \/ m = "" ->
                 [kind |-> "response", err |-> "", method |-> ""]
          [] Budget(opts) = 0 ->
                 [kind |-> "error", method |-> "",
                  err |-> "Maximum redirections reached"]
          [] location = "" ->
                 [kind |-> "error", method |-> "",
                  err |-> "Received redirection without location"]
          [] OTHER ->
                 [kind |-> "follow", err |-> "", method |-> m]

\* the options of the redirected request that keep the budget as it is
redirectOptionsNoDecrement(opts, copy) ==
    [opts EXCEPT !.payload = IF copy # <<>> THEN StreamPayload ELSE @]

\* The options of the redirected request: those of the attempt, with the
\* payload replaced by its copy when there is one, and one redirect less.
redirectOptions(opts, copy) ==
    [opts EXCEPT !.payload = IF copy # <<>> THEN StreamPayload ELSE @,
                 !.redirects = <<Budget(opts) - 1>>]

\* the changes a beforeRedirect function makes to the options it is given
HookChanges ==
    {[field |-> "none", value |-> <<>>],
     [field |-> "headers", value |-> "Modified"]}
        \cup { [field |-> "redirects", value |-> <<n>>] : n \in {0, MaxRedirects} }

\* the redirected request ignores what beforeRedirect did to its options
appliedIgnored(opts, change) == opts

\* redirectOptions after beforeRedirect has made its change to it
applied(opts, change) ==
    CASE change.field = "headers" -> [opts EXCEPT !.headers = change.value]
      [] change.field = "redirects" -> [opts EXCEPT !.redirects = change.value]
      [] OTHER -> opts

\* the options pass whatever agent comes with rejectUnauthorized
validAnyAgent(opts) == TRUE

\* the options pass when the agent given with rejectUnauthorized is false
validAgentFalse(opts) ==
    \/ opts.agent \in {"unset", "null", "false"}
    \/ opts.rejectUnauthorized = "unset"

\* The options pass: rejectUnauthorized is given as a boolean only with no
\* agent or with agent: null.
valid(opts) ==
    \/ opts.agent \in {"unset", "null"}
    \/ opts.rejectUnauthorized = "unset"

InvalidOptions ==
    "options.agent cannot be set to an Agent at the same time as options.rejectUnauthorized is set"

\* the uri a request goes to, the baseUrl winning over an absolute uri
effectiveBaseWins(baseUrl, uri) ==
    IF baseUrl = "" THEN uri
    ELSE IF IsAbsolute(uri)
         THEN baseUrl \o (CHOOSE q \in Paths : uri = OriginOf(uri) \o q)
         ELSE baseUrl \o uri

\* The uri a request goes to: the given uri when it is absolute, else the
\* baseUrl followed by it.
effective(baseUrl, uri) ==
    IF IsAbsolute(uri) THEN uri ELSE baseUrl \o uri

\* the uri is an https one
IsSecure(uri) == \E q \in Paths \cup {""} : uri = "https://b" \o q

\* the agent of every request is the one its protocol has by default
agentForDefault(opts, uri) ==
    IF IsSecure(uri)
    THEN IF opts.rejectUnauthorized = "false"
         THEN "httpsAllowUnauthorized" ELSE "https"
    ELSE "http"

\* The agent a request is handed to: the agent option when one is given,
\* else the agent of wreck.agents that fits the protocol of the uri.
agentFor(opts, uri) ==
    CASE opts.agent = "custom" -> "custom"
      [] opts.agent = "false" -> "none"
      [] IsSecure(uri) -> IF opts.rejectUnauthorized = "false"
                          THEN "httpsAllowUnauthorized" ELSE "https"
      [] OTHER -> "http"

\* the platform's request(): the agent's addRequest is called once
issued(l, agent) == [l EXCEPT !.addRequest[agent] = @ + 1]

\* the redirected function is called with the request that was redirected
redirectedCallOldRequest(l, opts, statusCode, location, req) ==
    IF opts.redirected
    THEN [l EXCEPT !.redirected = @ + 1,
                   !.observed = [statusCode |-> statusCode,
                                 location |-> location, req |-> req - 1]]
    ELSE l

\* The redirected function, when there is one, is called with the status
\* code, the location and the request of the redirected attempt.
redirectedCall(l, opts, statusCode, location, req) ==
    IF opts.redirected
    THEN [l EXCEPT !.redirected = @ + 1,
                   !.observed = [statusCode |-> statusCode,
                                 location |-> location, req |-> req]]
    ELSE l

\* The request of an attempt is created and its payload written: a string
\* at once, a stream chunk by chunk (Pipe).  source is what is left to read
\* of the payload stream.
RequestIssuer(method, uri, opts, source) ==
    LET supported == payloadSupported(method, opts)
        to == effective(opts.baseUrl, uri)
    IN  /\ previous' = attempt
        /\ attempt' = [n |-> attempt.n + 1, method |-> method, uri |-> to,
                       options |-> opts,
                       body |-> IF supported /\ opts.payload.kind = "string"
                                THEN opts.payload.data ELSE <<>>,
                       agent |-> agentFor(opts, to)]
        /\ stream' = source
        /\ tap' = <<>>
        /\ shadow' = <<>>
        /\ hook' = NoHook
        /\ state' = IF supported /\ opts.payload.kind = "stream"
                    THEN "SENDING" ELSE "AWAITING_RESPONSE"

\* what a caller passes as the content of its payload stream (<<>> when the
\* payload is not a stream)
Streams == { <<>>, [i \in 1..MaxChunks |-> Chunk(i)] }

\* the options a caller passes to request
CallOptions ==
    [redirects : {NoRedirects} \cup { <<n>> : n \in 0..MaxRedirects },
     redirectMethod : {"", "GET"},
     redirect303 : BOOLEAN,
     beforeRedirect : BOOLEAN,
     headers : {""},
     payload : {NoPayload, StringPayload, StreamPayload},
     redirected : {FALSE},
     agent : {"unset"},
     rejectUnauthorized : {"unset"},
     baseUrl : {""}]

\* the options a caller passes to request when it brings its own agent,
\* TLS flag, base URL and redirected function
HookedOptions ==
    [redirects : {NoRedirects, <<MaxRedirects>>},
     redirectMethod : {""},
     redirect303 : {FALSE},
     beforeRedirect : BOOLEAN,
     headers : {""},
     payload : {NoPayload},
     redirected : BOOLEAN,
     agent : AgentOptions,
     rejectUnauthorized : RejectUnauthorizedOptions,
     baseUrl : {"http://a"}]

\* the uris a caller passes along with a baseUrl
CallUris == {"/", "https://b/"}

\* The caller calls request(method, uri, options).
WreckRequest(method, uri, opts, chunks) ==
    /\ state = "IDLE"
    /\ (opts.payload.kind = "stream") <=> (chunks # <<>>)
    /\ call' = [method |-> method, uri |-> uri, options |-> opts]
    /\ IF valid(opts)
       THEN /\ RequestIssuer(method, uri,
                             [opts EXCEPT !.redirects = startBudget(@)], chunks)
            /\ log' = issued([log EXCEPT !.op = "request"],
                             agentFor(opts, effective(opts.baseUrl, uri)))
            /\ UNCHANGED outcomes
       ELSE /\ state' = "TERMINAL"
            /\ outcomes' = Append(outcomes, [err |-> InvalidOptions,
                                             statusCode |-> 0])
            /\ log' = [log EXCEPT !.op = "request"]
            /\ UNCHANGED <<attempt, previous, stream, tap, shadow, hook>>
    /\ UNCHANGED res
    /\ UNCHANGED agentVars
    /\ UNCHANGED <<issuerVars, readVars>>

\* The payload stream delivers its next chunk to the request, through the
\* Tap when redirects may follow.
Pipe ==
    /\ state = "SENDING"
    /\ stream # <<>>
    /\ LET t == IF Tapped(attempt)
                THEN transform(tap, Head(stream))
                ELSE [buffers |-> tap, out |-> Head(stream)]
       IN  /\ tap' = t.buffers
           /\ attempt' = [attempt EXCEPT !.body = @ \o t.out]
    /\ stream' = Tail(stream)
    /\ log' = [log EXCEPT !.op = "pipe"]
    /\ UNCHANGED <<state, call, previous, shadow, res, hook, outcomes>>
    /\ UNCHANGED agentVars
    /\ UNCHANGED <<issuerVars, readVars>>

\* The payload stream ends: the request is complete and the Tap, on
\* 'finish', hands over its copy.
PipeEnd ==
    /\ state = "SENDING"
    /\ stream = <<>>
    /\ state' = "AWAITING_RESPONSE"
    /\ shadow' = IF Tapped(attempt) THEN <<collect(tap)>> ELSE <<>>
    /\ log' = [log EXCEPT !.op = "end"]
    /\ UNCHANGED <<call, attempt, previous, stream, tap, res, hook, outcomes>>
    /\ UNCHANGED agentVars
    /\ UNCHANGED <<issuerVars, readVars>>

\* the caller is handed the response or the error, and the attempt stays
\* open to further responses
FinishNotOnce(err, statusCode) ==
    /\ state' = state
    /\ outcomes' = Append(outcomes, [err |-> err, statusCode |-> statusCode])
    /\ UNCHANGED <<attempt, previous, stream, tap, shadow, hook>>

\* the caller is handed the response or the error
Finish(err, statusCode) ==
    /\ state' = "TERMINAL"
    /\ outcomes' = Append(outcomes, [err |-> err, statusCode |-> statusCode])
    /\ UNCHANGED <<attempt, previous, stream, tap, shadow, hook>>

\* The response to the attempt in flight arrives.
onResponse(statusCode, location) ==
    /\ state = "AWAITING_RESPONSE"
    /\ res' = [n |-> res.n + 1, statusCode |-> statusCode, location |-> location]
    /\ LET opts == attempt.options
           c == classify(opts, attempt.method, statusCode, location)
           to == resolve(attempt.uri, location)
           copy == shadow
           source == IF copy # <<>> THEN copy[1] ELSE stream
       IN  CASE c.kind = "response" ->
                    /\ Finish("", statusCode)
                    /\ log' = [log EXCEPT !.op = "response"]
             [] c.kind = "error" ->
                    /\ Finish(c.err, 0)
                    /\ log' = [log EXCEPT !.op = "response"]
             [] OTHER ->
                    /\ attempt.n < MaxAttempts
                    /\ outcomes' = outcomes
                    /\ IF opts.beforeRedirect
                       THEN /\ state' = "REDIRECTING"
                            /\ hook' = [pending |-> TRUE,
                                        redirectMethod |-> c.method,
                                        statusCode |-> statusCode,
                                        location |-> to,
                                        headers |-> location,
                                        redirectOptions |-> redirectOptions(opts, copy),
                                        source |-> source]
                            /\ log' = [log EXCEPT !.op = "response",
                                                  !.calls = @ + 1]
                            /\ UNCHANGED <<attempt, previous, stream, tap, shadow>>
                       ELSE /\ RequestIssuer(c.method, to,
                                             redirectOptions(opts, copy), source)
                            /\ log' = redirectedCall(
                                          issued([log EXCEPT !.op = "response"],
                                                 agentFor(redirectOptions(opts, copy), to)),
                                          opts, statusCode, to, attempt.n + 1)
    /\ UNCHANGED call
    /\ UNCHANGED agentVars
    /\ UNCHANGED <<issuerVars, readVars>>

\* The beforeRedirect function, having made its change to redirectOptions,
\* calls next: the redirected request is issued.
followRedirect(change) ==
    /\ state = "REDIRECTING"
    /\ RequestIssuer(hook.redirectMethod, hook.location,
                     applied(hook.redirectOptions, change), hook.source)
    /\ log' = redirectedCall(
                  issued([log EXCEPT !.op = "next", !.change = change,
                                     !.rewritten = @ \/ change.field = "redirects"],
                         agentFor(hook.redirectOptions, hook.location)),
                  attempt.options, hook.statusCode, hook.location,
                  attempt.n + 1)
    /\ UNCHANGED <<call, res, outcomes>>
    /\ UNCHANGED agentVars
    /\ UNCHANGED <<issuerVars, readVars>>

\* abort reaches whichever attempt is in flight
abortInFlightAnyAttempt(n, st) == st \in {"SENDING", "AWAITING_RESPONSE"}

\* promise.req is the request of the first attempt: aborting it ends the
\* chain only while that request is the one in flight
abortInFlight(n, st) == n = 1 /\ st \in {"SENDING", "AWAITING_RESPONSE"}

\* The caller calls promise.req.abort().
Abort ==
    /\ state \notin {"IDLE", "TERMINAL"}
    /\ ~log.aborted
    /\ IF abortInFlight(attempt.n, state)
       THEN Finish("ECONNRESET", 0)
       ELSE UNCHANGED <<state, outcomes, attempt, previous, stream, tap,
                        shadow, hook>>
    /\ log' = [log EXCEPT !.op = "abort", !.aborted = TRUE]
    /\ UNCHANGED <<call, res>>
    /\ UNCHANGED agentVars
    /\ UNCHANGED <<issuerVars, readVars>>

InitRedirect ==
    /\ InitAgent({FALSE}, {0})
    /\ options.maxFreeSockets = DefaultMaxFreeSockets
    /\ maxSockets = MaxSockets
    /\ peers = { <<"a", "80", "">> }
    /\ NoChain

NextRedirect ==
    \/ \E method \in Methods, opts \in CallOptions, chunks \in Streams :
           WreckRequest(method, "http://a/", opts, chunks)
    \/ Pipe
    \/ PipeEnd
    \/ \E statusCode \in StatusCodes, location \in Locations :
           onResponse(statusCode, location)
    \/ \E change \in HookChanges : followRedirect(change)

SpecRedirect == InitRedirect /\ [][NextRedirect]_vars

\* a chain of a caller that brings an agent, a TLS flag, a base URL, a
\* redirected function, and that may abort
NextHooked ==
    \/ \E uri \in CallUris, opts \in HookedOptions :
           WreckRequest("GET", uri, opts, <<>>)
    \/ \E statusCode \in {200, 301}, location \in Locations :
           onResponse(statusCode, location)
    \/ \E change \in HookChanges : followRedirect(change)
    \/ Abort

SpecHooked == InitRedirect /\ [][NextHooked]_vars

\* Every attempt does get a response or an error, and every beforeRedirect
\* function does call next.
FairSpecHooked ==
    /\ SpecHooked
    /\ WF_vars(\E statusCode \in {200, 301}, location \in Locations :
                   onResponse(statusCode, location))
    /\ WF_vars(\E change \in HookChanges : followRedirect(change))

TypeOKRedirect ==
    /\ state \in {"IDLE", "SENDING", "AWAITING_RESPONSE", "REDIRECTING", "TERMINAL"}
    /\ attempt.n \in 0..MaxAttempts
    /\ previous.n \in 0..MaxAttempts
    /\ attempt.n > 0 => /\ attempt.method \in Methods
                        /\ attempt.uri \in Uris
                        /\ attempt.options.headers \in Headers
                        /\ previous.n = attempt.n - 1
    /\ res.n \in 0..MaxAttempts
    /\ res.n > 0 => res.statusCode \in StatusCodes /\ res.location \in Locations
    /\ Len(outcomes) <= 1
    /\ hook.pending <=> state = "REDIRECTING"

\* ------------------------------------------ the requests and their callers

\* calls of request that are followed
MaxIssued == 2

\* the timeout option of request: 0 (the default, no limit) or positive
RequestTimeouts == {0, 1}

\* what the caller of request is handed
Response == [err |-> "", statusCode |-> 200, code |-> ""]
GatewayTimeout == [err |-> "Client request timeout", statusCode |-> 504, code |-> ""]
ConnectionReset == [err |-> "Client request error", statusCode |-> 502, code |-> "ECONNRESET"]

\* this._emit(name, ...): the handlers of a client with events are called;
\* req and res tell whether a request object and a response are passed
emit(q, name, err, withRes) ==
    IF q.events
    THEN [q EXCEPT !.emitted = Append(@, [name |-> name, req |-> q.created,
                                          err |-> err, res |-> withRes])]
    ELSE q

\* a finish that hands the caller every response and error
finishNotOnce(q, outcome) ==
    emit([q EXCEPT !.delivered = Append(@, outcome), !.timer = FALSE],
         "response", outcome.err, outcome.err = "")

\* a finish that emits 'response' for a response only
finishOnceQuietOnError(q, outcome) ==
    IF q.delivered # <<>>
    THEN q
    ELSE IF outcome.err = ""
         THEN emit([q EXCEPT !.delivered = <<outcome>>, !.timer = FALSE],
                   "response", outcome.err, TRUE)
         ELSE [q EXCEPT !.delivered = <<outcome>>, !.timer = FALSE]

\* finishOnce: the caller is handed the first response or error only, the
\* timer is cleared and 'response' is emitted, with the error or with the
\* response
finishOnce(q, outcome) ==
    IF q.delivered # <<>>
    THEN q
    ELSE emit([q EXCEPT !.delivered = <<outcome>>, !.timer = FALSE],
              "response", outcome.err, outcome.err = "")

\* req.abort(): the request is flagged and, when no response has come, will
\* emit 'error' (socket hang up, ECONNRESET)
abort(q, by) ==
    [q EXCEPT !.aborted = TRUE, !.by = by, !.hangUp = q.delivered = <<>>]

\* the timeout handler that leaves the request alone
onTimeoutNoAbort(q) == finishOnce(q, GatewayTimeout)

\* the timeout handler: the request is aborted and the caller handed a 504
onTimeout(q) == finishOnce(abort(q, "timeout"), GatewayTimeout)

\* the 'error' listener that takes the error for a timeout
onErrorAsTimeout(q) == finishOnce([q EXCEPT !.hangUp = FALSE], GatewayTimeout)

\* the 'error' listener of the request
onError(q) == finishOnce([q EXCEPT !.hangUp = FALSE], ConnectionReset)

\* the sockets an event hands to requests that were aborted while they
\* waited for one: each request destroys its socket as soon as it has it
Deferred(a) ==
    { a.onSocket[r] : r \in { x \in Requests : /\ reqs[x].aborted
                                                /\ a.onSocket[x] # NoSocket
                                                /\ a.onSocket[x] # onSocket[x] } }

\* request(method, uri, { timeout: ms }) on a client with or without
\* events: 'preRequest' is emitted, a request object is created, 'request'
\* is emitted, the timer is started and the request handed to the agent.
IssueRequestOn(r, d, ms, events) ==
    /\ d \in peers
    /\ r <= MaxIssued
    /\ ~reqs[r].created
    /\ \A q \in Requests : q < r => reqs[q].created
    /\ LET a == addRequest(Cur, r, d[1], d[2], d[3])
       IN  Commit(a, {}, "addRequest", d, NoSocket, r)
    /\ LET before == emit([NoClientRequest EXCEPT !.events = events],
                          "preRequest", "", FALSE)
           created == [before EXCEPT !.created = TRUE,
                                     !.timeout = ms,
                                     !.timer = ms > 0]
       IN  reqs' = [reqs EXCEPT ![r] = emit(created, "request", "", FALSE)]
    /\ UNCHANGED <<secure, options, destroyed, pair, maxSockets, peers>>

\* request(method, uri, { timeout: ms }) on the default client, which has
\* no events.
IssueRequest(r, d, ms) == IssueRequestOn(r, d, ms, FALSE)

\* The response to request r arrives and the caller is handed it.
RequestResponse(r) ==
    /\ onSocket[r] # NoSocket
    /\ ~Dead(onSocket[r])
    /\ ~reqs[r].aborted
    /\ reqs[r].delivered = <<>>
    /\ reqs' = [reqs EXCEPT ![r] = finishOnce(@, Response)]
    /\ UNCHANGED <<agentVars, redirectVars, readVars>>

\* the socket of request r, if it has one, is destroyed
DestroySocketOf(r) ==
    destroyed' = [s \in Sockets |-> destroyed[s] \/ s = onSocket[r]]

\* The timer of request r goes off.
RequestTimeout(r) ==
    /\ reqs[r].timer
    /\ reqs' = [reqs EXCEPT ![r] = onTimeout(@)]
    /\ DestroySocketOf(r)
    /\ UNCHANGED <<secure, options, idleSockets, sockets, requests, onSocket,
                   pair, idleTime, target, arrival, last, maxSockets, peers>>
    /\ UNCHANGED <<redirectVars, readVars>>

\* The caller calls promise.req.abort() on a request that is pending, in
\* flight, or whose response is being read.
RequestAbort(r) ==
    /\ r \in Live
    /\ ~reqs[r].aborted
    /\ reqs' = [reqs EXCEPT ![r] = abort(@, "caller")]
    /\ DestroySocketOf(r)
    /\ UNCHANGED <<secure, options, idleSockets, sockets, requests, onSocket,
                   pair, idleTime, target, arrival, last, maxSockets, peers>>
    /\ UNCHANGED <<redirectVars, readVars>>

\* Request r emits 'error'.
RequestError(r) ==
    /\ reqs[r].hangUp
    /\ reqs' = [reqs EXCEPT ![r] = onError(@)]
    /\ UNCHANGED <<agentVars, redirectVars, readVars>>

\* The peer resets the connection of a socket: the socket is destroyed, and
\* a request that waits on it for a response will emit 'error'.
PeerReset(s) ==
    /\ s \in Open
    /\ ~Dead(s)
    /\ destroyed' = [destroyed EXCEPT ![s] = TRUE]
    /\ reqs' = [r \in Requests |->
                   IF onSocket[r] = s /\ reqs[r].delivered = <<>>
                   THEN [reqs[r] EXCEPT !.hangUp = TRUE]
                   ELSE reqs[r]]
    /\ UNCHANGED <<secure, options, idleSockets, sockets, requests, onSocket,
                   pair, idleTime, target, arrival, last, maxSockets, peers>>
    /\ UNCHANGED <<redirectVars, readVars>>

\* The response of request r has been read to its end: the socket emits
\* 'free'; a pending request that was aborted destroys the socket it gets.
ResponseRead(r) ==
    /\ onSocket[r] # NoSocket
    /\ reqs[r].delivered = <<Response>>
    /\ ~reqs[r].aborted
    /\ LET s == onSocket[r]
           d == DestOf(s)
           a == free([Cur EXCEPT !.onSocket[r] = NoSocket], s, d[1], d[2], d[3])
       IN  /\ Commit(a, {}, "free", d, s,
                     IF requests[NameOf(d)] # <<>>
                     THEN Head(requests[NameOf(d)]) ELSE NoRequest)
           /\ destroyed' = [x \in Sockets |-> destroyed[x] \/ x \in Deferred(a)]
    /\ UNCHANGED <<secure, options, pair, maxSockets, peers>>
    /\ UNCHANGED issuerVars

\* A destroyed socket emits 'close': the agent removes it, and a pending
\* request that was aborted destroys the socket the platform opens for it.
SocketClose(s) ==
    /\ s \in Open
    /\ Dead(s)
    /\ LET d == DestOf(s)
           a == removeSocket(Cur, s, NameOf(d), d[1], d[2], d[3])
       IN  /\ Commit(a, {s}, "close", d, s,
                     IF requests[NameOf(d)] # <<>>
                     THEN Head(requests[NameOf(d)]) ELSE NoRequest)
           /\ destroyed' = [x \in Sockets |->
                               IF x \in Deferred(a) THEN TRUE
                               ELSE IF x = s THEN FALSE ELSE destroyed[x]]
    /\ UNCHANGED <<secure, options, pair, maxSockets, peers>>
    /\ UNCHANGED issuerVars

\* One destination, one socket per name, an HttpAgent.
InitIssuer ==
    /\ InitAgent({FALSE}, {0})
    /\ options.maxFreeSockets = DefaultMaxFreeSockets
    /\ maxSockets = 1
    /\ peers = { <<"a", "80", "">> }
    /\ NoChain

NextIssuer ==
    \/ \E r \in Requests, d \in Destinations, ms \in RequestTimeouts :
           IssueRequest(r, d, ms)
    \/ \E r \in Requests : RequestResponse(r)
    \/ \E r \in Requests : RequestTimeout(r)
    \/ \E r \in Requests : RequestAbort(r)
    \/ \E r \in Requests : RequestError(r)
    \/ \E s \in Sockets : PeerReset(s)
    \/ \E r \in Requests : ResponseRead(r)
    \/ \E s \in Sockets : SocketClose(s)

SpecIssuer == InitIssuer /\ [][NextIssuer]_vars

\* the requests of one client, made by Wreck.defaults({ events: true }) or
\* without events
NextEvents ==
    \/ \E r \in Requests, d \in Destinations, ms \in RequestTimeouts,
          events \in BOOLEAN :
           /\ r > 1 => events = reqs[1].events
           /\ IssueRequestOn(r, d, ms, events)
    \/ \E r \in Requests : RequestResponse(r)
    \/ \E r \in Requests : RequestTimeout(r)
    \/ \E r \in Requests : RequestAbort(r)
    \/ \E r \in Requests : RequestError(r)
    \/ \E s \in Sockets : PeerReset(s)
    \/ \E r \in Requests : ResponseRead(r)
    \/ \E s \in Sockets : SocketClose(s)

SpecEvents == InitIssuer /\ [][NextEvents]_vars

\* SocketClose is enabled exactly when the agent lists a destroyed socket
CloseDue == \E s \in Open : Dead(s)

\* A destroyed socket does emit 'close': weak fairness of SocketClose, with
\* its enabling condition written out.
FairSpecIssuer ==
    SpecIssuer /\ ([]<>(~CloseDue)
                      \/ []<><<\E s \in Sockets : SocketClose(s)>>_vars)

TypeOKIssuer ==
    /\ TypeOK
    /\ \A r \in Requests :
          /\ Len(reqs[r].delivered) <= 1
          /\ reqs[r].timer => (reqs[r].created /\ reqs[r].delivered = <<>>)
          /\ r \in Live => reqs[r].created

\* ------------------------------------------------- the read of a stream

\* milliseconds a read is followed for
MaxTicks == 2

\* the timeout option of read: negative, 0 (the default), positive
Timeouts == {-1, 0} \cup 1..MaxTicks

\* the streams a caller reads: their chunks, in the order they are emitted
Readables ==
    UNION { [1..n -> { Chunk(i) : i \in 1..MaxChunks }] : n \in 0..MaxChunks }

\* a timer is started for any timeout but 0
armedNonZero(ms) == ms # 0

\* a timer is started for a positive timeout only
armed(ms) == ms > 0

\* the caller of read is handed the payload or the error, once
readFinishOnce(rd, err, statusCode, payload) ==
    IF rd.state # "READING"
    THEN rd
    ELSE [rd EXCEPT !.state = "DONE",
                    !.timer = <<>>,
                    !.results = Append(@, [err |-> err,
                                           statusCode |-> statusCode,
                                           payload |-> payload])]

\* the responses a caller reads: their content type, and whether they have
\* a destroy function
ContentTypes == {"text/plain", "application/json"}

Sources ==
    [contentType : ContentTypes, destroy : BOOLEAN, destroyed : {FALSE}]

\* a response of the defaults: plain text that can be destroyed
PlainSource ==
    [contentType |-> "text/plain", destroy |-> TRUE, destroyed |-> FALSE]

\* the json option of read
JsonModes == {"false", "true", "strict", "force"}

\* the options of a read that gives none but a timeout
TimeoutOnly(ms) == [timeout |-> ms, maxBytes |-> 0, json |-> "false"]

\* the chunk the Recorder refuses: one that reaches the limit
tooLargeAtLimit(maxBytes, length, chunk) ==
    maxBytes # 0 /\ length + Len(chunk) >= maxBytes

\* Recorder._write: the chunk the Recorder refuses, one that would bring
\* the recorded size above maxBytes (0 is no limit)
tooLarge(maxBytes, length, chunk) ==
    maxBytes # 0 /\ length + Len(chunk) > maxBytes

\* the error of a stream that fails, every error taken as an early close
onResErrorAsClosed(err) ==
    IF err.isBoom
    THEN err
    ELSE [isBoom |-> TRUE, message |-> "Payload stream closed prematurely",
          statusCode |-> 500]

\* the error of a stream that fails, rewrapped even when it is a Boom error
onResErrorRewrapped(err) ==
    [isBoom |-> TRUE, message |-> "Payload stream error: " \o err.message,
     statusCode |-> 500]

\* onResError: a Boom error is kept, any other is wrapped in a 500
onResErrorOutcome(err) ==
    IF err.isBoom
    THEN err
    ELSE [isBoom |-> TRUE, message |-> "Payload stream error: " \o err.message,
          statusCode |-> 500]

\* the errors a stream emits: a plain Error and a Boom.badRequest
StreamErrors ==
    { [isBoom |-> FALSE, message |-> "my error", statusCode |-> 0],
      [isBoom |-> TRUE, message |-> "You messed up", statusCode |-> 400] }

\* the texts that are JSON: Chunk(1) stands for the bytes of
\* JSON.stringify({ foo: 'bar' }), every other text for 'ok'
JsonTexts == { Chunk(1) }

\* the value a JSON text denotes, told from a buffer by its leading 0; the
\* value of no text at all is null
Value(text) == <<0>> \o text

Null == Value(<<>>)

\* the content type is JSON or a JSON-based subtype
isJson(contentType) ==
    contentType \in {"application/json", "application/vnd.api+json"}

\* what the caller of read is handed for a payload
Handed(err, statusCode, payload) ==
    [err |-> err, statusCode |-> statusCode, payload |-> payload]

\* internals.tryParseBuffer: null for an empty buffer, the parsed value of
\* a JSON text, else a 502 error
tryParseBuffer(buffer) ==
    IF buffer = <<>>
    THEN Handed("", 0, Null)
    ELSE IF buffer \in JsonTexts
         THEN Handed("", 0, Value(buffer))
         ELSE Handed("Unexpected token", 502, <<>>)

\* the payload of a read that takes 'strict' as true
decodeStrictAsTrue(mode, contentType, buffer) ==
    IF mode = "false"
    THEN Handed("", 0, buffer)
    ELSE IF mode = "force"
         THEN tryParseBuffer(buffer)
         ELSE IF ~isJson(contentType)
              THEN Handed("", 0, buffer)
              ELSE tryParseBuffer(buffer)

\* the payload of a read by its json option: false leaves it raw, 'force'
\* parses it, true and 'strict' parse it when the content type is JSON;
\* when it is not, 'strict' fails with a 406 and true leaves it raw
decode(mode, contentType, buffer) ==
    IF mode = "false"
    THEN Handed("", 0, buffer)
    ELSE IF mode = "force"
         THEN tryParseBuffer(buffer)
         ELSE IF ~isJson(contentType)
              THEN IF mode = "strict"
                   THEN Handed("The content-type is not JSON compatible",
                               406, <<>>)
                   ELSE Handed("", 0, buffer)
              ELSE tryParseBuffer(buffer)

\* toReadableStream(payload): a stream that delivers the buffer as one chunk
toReadableStream(buffer) == Payload(<<buffer>>)

\* read(res, options)
read(source, chunks, opts) ==
    /\ reader.state = "IDLE"
    /\ reader' = [reader EXCEPT !.state = "READING",
                                !.timeout = opts.timeout,
                                !.timer = IF armed(opts.timeout)
                                          THEN <<opts.timeout>>
                                          ELSE <<>>,
                                !.maxBytes = opts.maxBytes,
                                !.json = opts.json,
                                !.source = source,
                                !.stream = chunks]
    /\ incoming' = chunks
    /\ clock' = 0
    /\ UNCHANGED <<agentVars, redirectVars, issuerVars>>

\* The caller calls read(stream, { timeout: ms }).
WreckRead(chunks, ms) == read(PlainSource, chunks, TimeoutOnly(ms))

\* The stream emits a chunk: the Recorder records it, or refuses it, and
\* then the stream is destroyed when it can be and the read fails with a 413.
onData ==
    /\ reader.state = "READING"
    /\ incoming # <<>>
    /\ IF tooLarge(reader.maxBytes, reader.length, Head(incoming))
       THEN reader' =
                [readFinishOnce(reader,
                     "Payload content length greater than maximum allowed",
                     413, <<>>)
                 EXCEPT !.source.destroyed = reader.source.destroy,
                        !.by = "maxBytes"]
       ELSE reader' = [reader EXCEPT !.buffers = Append(@, Head(incoming)),
                                     !.length = @ + Len(Head(incoming))]
    /\ incoming' = Tail(incoming)
    /\ UNCHANGED clock
    /\ UNCHANGED <<agentVars, redirectVars, issuerVars>>

\* The stream ends: the caller is handed the recorded chunks as one buffer,
\* or what the json option makes of it.
onFinish ==
    /\ reader.state = "READING"
    /\ incoming = <<>>
    /\ LET d == decode(reader.json, reader.source.contentType,
                       Concat(reader.buffers))
       IN  reader' = [readFinishOnce(reader, d.err, d.statusCode, d.payload)
                      EXCEPT !.by = "finish"]
    /\ UNCHANGED <<incoming, clock>>
    /\ UNCHANGED <<agentVars, redirectVars, issuerVars>>

\* The stream emits 'error' before its end.
onResError(err) ==
    /\ reader.state = "READING"
    /\ LET e == onResErrorOutcome(err)
       IN  reader' = [readFinishOnce(reader, e.message, e.statusCode, <<>>)
                      EXCEPT !.by = "error", !.emitted = err]
    /\ UNCHANGED <<incoming, clock>>
    /\ UNCHANGED <<agentVars, redirectVars, issuerVars>>

\* the events of a stream that is cut short
EarlyEvents == {"close", "aborted"}

\* onResAborted: the stream emits 'close' or 'aborted' before its end.
onResAborted(event) ==
    /\ reader.state = "READING"
    /\ reader' = [readFinishOnce(reader, "Payload stream closed prematurely",
                                 500, <<>>)
                  EXCEPT !.by = event]
    /\ UNCHANGED <<incoming, clock>>
    /\ UNCHANGED <<agentVars, redirectVars, issuerVars>>

\* The timer of the read goes off.
onReadTimeout ==
    /\ reader.state = "READING"
    /\ reader.timer # <<>>
    /\ clock >= reader.timer[1]
    /\ reader' = [readFinishOnce(reader, "Request Time-out", 408, <<>>)
                  EXCEPT !.by = "timeout"]
    /\ UNCHANGED <<incoming, clock>>
    /\ UNCHANGED <<agentVars, redirectVars, issuerVars>>

\* One millisecond passes; a timer that is due goes off before the next.
ReadTick ==
    /\ reader.state = "READING"
    /\ clock < MaxTicks
    /\ reader.timer # <<>> => clock < reader.timer[1]
    /\ clock' = clock + 1
    /\ UNCHANGED <<reader, incoming>>
    /\ UNCHANGED <<agentVars, redirectVars, issuerVars>>

NextRead ==
    \/ \E chunks \in Readables, ms \in Timeouts : WreckRead(chunks, ms)
    \/ onData
    \/ onFinish
    \/ onReadTimeout
    \/ ReadTick

SpecRead == InitRedirect /\ [][NextRead]_vars

\* the maxBytes option of read: no limit, and the size of one chunk
MaxBytesOptions == {0, Len(Chunk(1))}

\* the options of the reads that are followed to the payload, which set
\* no timeout
ReadOptions ==
    [timeout : {0}, maxBytes : MaxBytesOptions, json : JsonModes]

\* the streams of these reads: chunk by chunk, or made of one buffer
ReadStreams ==
    Readables \cup { toReadableStream(Concat(chunks)) : chunks \in Readables }

NextPayload ==
    \/ \E source \in Sources, chunks \in ReadStreams, opts \in ReadOptions :
           read(source, chunks, opts)
    \/ onData
    \/ onFinish
    \/ \E err \in StreamErrors : onResError(err)
    \/ \E event \in EarlyEvents : onResAborted(event)

SpecPayload == InitRedirect /\ [][NextPayload]_vars

TypeOKRead ==
    /\ reader.state \in {"IDLE", "READING", "DONE"}
    /\ reader.timeout \in Timeouts \cup {0}
    /\ clock \in 0..MaxTicks
    /\ Len(reader.results) <= 1
    /\ reader.state = "DONE" <=> Len(reader.results) = 1

\* ------------------------------------------------------------ the claims

Top(stack) == stack[Len(stack)]

\* the idle stack of a name, empty when the name has no entry
Stack(name) == IF name \in DOMAIN idleSockets THEN idleSockets[name] ELSE <<>>

\* the position of the topmost usable socket of a stack, 0 when none
TopUsable(stack) ==
    IF \E i \in 1..Len(stack) : isSocketUsable(stack[i])
    THEN CHOOSE i \in 1..Len(stack) :
             /\ isSocketUsable(stack[i])
             /\ \A j \in (i + 1)..Len(stack) : ~isSocketUsable(stack[j])
    ELSE 0

\* the sequence with every occurrence of s taken out
Without(stack, s) == SelectSeq(stack, LAMBDA x : x # s)

\* C1: a request is never handed a socket that is unusable at hand-out time;
\* addRequest takes the topmost usable socket of the idle stack, every
\* unusable socket above it is dropped from the stack, and with no usable
\* socket the stack ends up empty and the request goes to the platform's
\* path (a new socket, or the pending queue).
C1_Step ==
    /\ \A r \in Requests :
          onSocket'[r] # NoSocket /\ onSocket'[r] # onSocket[r]
              => isSocketUsable(onSocket'[r])
    /\ last'.op = "addRequest" =>
          LET name  == last'.name
              r     == last'.request
              stack == Stack(name)
              i     == TopUsable(stack)
          IN  IF i # 0
              THEN /\ onSocket'[r] = stack[i]
                   /\ idleSockets'[name] = SubSeq(stack, 1, i - 1)
              ELSE /\ name \in DOMAIN idleSockets => idleSockets'[name] = <<>>
                   /\ \/ onSocket'[r] \in Sockets \ Open
                      \/ onSocket'[r] = NoSocket /\ r \in Range(requests'[name])

C1_NeverHandsOutUnusable == [][C1_Step]_vars

\* an addRequest met unusable sockets on the idle stack, dropped them, and
\* the request still got a socket
C1_Witness ==
    /\ last.op = "addRequest"
    /\ last.discarded > 0
    /\ onSocket[last.request] # NoSocket

\* C2: a usable socket freed below the cap, with no request pending, ends up
\* on top of the idle stack of its name, and addRequest for a name whose
\* topmost idle socket is usable hands out that socket (LIFO).
C2_Step ==
    /\ last'.op = "free" =>
          LET name == last'.name
              s    == last'.socket
          IN  (/\ isSocketUsable(s)
               /\ Len(Stack(name)) < options.maxFreeSockets
               /\ requests[name] = <<>>)
                  => idleSockets'[name] = Append(Stack(name), s)
    /\ last'.op = "addRequest" =>
          LET name == last'.name
          IN  (Stack(name) # <<>> /\ isSocketUsable(Top(Stack(name))))
                  => /\ onSocket'[last'.request] = Top(Stack(name))
                     /\ idleSockets'[name] =
                            SubSeq(Stack(name), 1, Len(Stack(name)) - 1)

C2_ReuseIsLIFO == [][C2_Step]_vars

\* a request was handed the most recently freed socket while an earlier
\* freed one stays on the stack
C2_Witness ==
    /\ last.op = "addRequest"
    /\ last.pooled # NoSocket
    /\ last.discarded = 0
    /\ Stack(last.name) # <<>>

\* C3: no idle stack is longer than options.maxFreeSockets, and a free
\* called for a name whose stack is at the cap leaves the stack unchanged.
C3_Cap == \A name \in DOMAIN idleSockets :
              Len(idleSockets[name]) <= options.maxFreeSockets

C3_Step ==
    last'.op = "free" =>
        (Len(Stack(last'.name)) >= options.maxFreeSockets
            => idleSockets'[last'.name] = idleSockets[last'.name])

C3_MaxFreeSockets == []C3_Cap /\ [][C3_Step]_vars

\* free was called with a usable socket for a stack at the cap
C3_Witness ==
    /\ last.op = "free"
    /\ isSocketUsable(last.socket)
    /\ ~last.retained
    /\ Len(Stack(last.name)) = options.maxFreeSockets


\* C4: no socket is held by two requests in flight, and a socket held by a
\* request is on no idle stack: addRequest pops the socket it hands out.
C4_ExclusiveOwnership ==
    /\ \A r1, r2 \in Requests :
          r1 # r2 /\ onSocket[r1] # NoSocket => onSocket[r1] # onSocket[r2]
    /\ \A r \in Requests : onSocket[r] \notin Idle

\* a pooled socket was handed to a request while another request is in
\* flight on another socket
C4_Witness ==
    /\ last.pooled # NoSocket
    /\ onSocket[last.request] = last.pooled
    /\ \E r \in Requests \ {last.request} : onSocket[r] # NoSocket

\* C5: a request in flight holds a socket connected to the request's own
\* destination, and every idle socket sits on the stack of the name of the
\* destination it is connected to: sockets are never shared across names.
C5_NamesNeverShare ==
    /\ \A r \in Requests :
          onSocket[r] # NoSocket => DestOf(onSocket[r]) = target[r]
    /\ \A name \in DOMAIN idleSockets : \A s \in Range(idleSockets[name]) :
          NameOf(DestOf(s)) = name

\* a pooled socket was handed to a request while an idle socket of the other
\* name was left where it is
C5_Witness ==
    /\ last.op = "addRequest"
    /\ last.pooled # NoSocket
    /\ \E name \in DOMAIN idleSockets :
          name # last.name /\ idleSockets[name] # <<>>


\* the events in which free runs: a socket's 'free', and the 'free' the
\* platform's removeSocket emits on the socket it opens for a pending request
FreeRuns(op) == op \in {"free", "close", "agentRemove"}

\* C6: whenever free runs for a name with pending requests, the head of the
\* queue is taken off and dispatched within the same event: afterwards it
\* holds a socket, or addRequest has put it back at the end of the queue;
\* this does not depend on the freed socket being usable or retained.
C6_Step ==
    (FreeRuns(last'.op) /\ requests[last'.name] # <<>>) =>
        LET q == requests[last'.name]
            r == Head(q)
        IN  /\ last'.request = r
            /\ \/ onSocket'[r] # NoSocket /\ requests'[last'.name] = Tail(q)
               \/ onSocket'[r] = NoSocket
                  /\ requests'[last'.name] = Append(Tail(q), r)

C6_PendingServicedInFree == [][C6_Step]_vars

\* a free whose socket was unusable and not retained took the head of a
\* queue of two off and dispatched it: it is now behind the other request
C6_Witness ==
    /\ last.op = "free"
    /\ last.request # NoRequest
    /\ ~isSocketUsable(last.socket)
    /\ ~last.retained
    /\ Len(requests[last.name]) = 2
    /\ requests[last.name][2] = last.request

\* C7 as stated: the pending request free services is not given a pooled
\* socket, and the socket just released stays on the idle stack.
C7_Original_Step ==
    (last'.op = "free" /\ requests[last'.name] # <<>>) =>
        /\ last'.pooled = NoSocket
        /\ last'.retained => last'.socket \in Range(idleSockets'[last'.name])

C7_Original == [][C7_Original_Step]_vars

\* C7 amended: the pending request free services goes through addRequest,
\* which takes the topmost usable socket of the idle stack as free left
\* it, the socket just released when that was usable and retained, and pops
\* it; only with no usable idle socket does the request go to the
\* platform's path (a new socket, or the end of the pending queue).  The
\* free that the platform's removeSocket emits on the socket it has opened
\* for the pending request does the same with that new socket.
C7_Step ==
    /\ (last'.op = "free" /\ requests[last'.name] # <<>>) =>
          LET name   == last'.name
              s      == last'.socket
              r      == Head(requests[name])
              pushed == IF isSocketUsable(s)
                           /\ Len(Stack(name)) < options.maxFreeSockets
                        THEN Append(Stack(name), s)
                        ELSE Stack(name)
              i      == TopUsable(pushed)
          IN  IF i # 0
              THEN /\ onSocket'[r] = pushed[i]
                   /\ idleSockets'[name] = SubSeq(pushed, 1, i - 1)
              ELSE \/ onSocket'[r] \in Sockets \ Open
                   \/ onSocket'[r] = NoSocket /\ r \in Range(requests'[name])
    /\ (last'.op \in {"close", "agentRemove"} /\ requests[last'.name] # <<>>) =>
          LET name == last'.name
              r    == Head(requests[name])
              left == Without(Stack(name), last'.socket)
          IN  IF Len(left) < options.maxFreeSockets
              THEN /\ onSocket'[r] \in Sockets \ Open
                   /\ last'.pooled = onSocket'[r]
                   /\ idleSockets'[name] = left
              ELSE \/ onSocket'[r] \in Range(left)
                   \/ onSocket'[r] = NoSocket /\ r \in Range(requests'[name])

C7_PendingGetsFreedSocket == [][C7_Step]_vars

\* a free retained its socket and the pending request it serviced was
\* handed that very socket
C7_Witness ==
    /\ last.op = "free"
    /\ last.request # NoRequest
    /\ last.retained
    /\ last.pooled = last.socket
    /\ onSocket[last.request] = last.socket
    /\ last.socket \notin Idle

\* C8 as stated: a request that has waited is given a socket only when no
\* request of the same name has been waiting for longer.
C8_Step ==
    \A i \in 1..Len(arrival) :
        onSocket'[arrival[i]] # NoSocket =>
            \A j \in 1..(i - 1) : target[arrival[j]] # target[arrival[i]]

C8_PendingFIFO == [][C8_Step]_vars

\* C9: after removeSocket(socket, name, ...) the socket is not on the idle
\* stack of the name, and the other idle sockets are in the order they were.
C9_Step ==
    last'.op \in {"close", "agentRemove"} =>
        LET after == IF last'.name \in DOMAIN idleSockets'
                     THEN idleSockets'[last'.name] ELSE <<>>
        IN  /\ last'.socket \notin Range(after)
            /\ after = Without(Stack(last'.name), last'.socket)

C9_RemoveSocket == [][C9_Step]_vars

\* an idle socket was removed and another one is still on the stack
C9_Witness ==
    /\ last.op = "close"
    /\ last.wasIdle
    /\ last.socket \notin Idle
    /\ Stack(last.name) # <<>>

\* C10 as stated: with a positive freeSocketsTimeout no socket stays on an
\* idle stack, undestroyed, once it has been idle for that long.
C10_FreeSocketsTimeout ==
    options.freeSocketsTimeout > 0 =>
        \A s \in Idle : idleTime[s] >= options.freeSocketsTimeout => Dead(s)

\* ------------------------------------------- the claims on redirections

\* The redirected attempt that followed a response with one of the status
\* codes has been written in full and waits for its own response.
SentAfter(codes) ==
    /\ attempt.n >= 2
    /\ res.n = attempt.n - 1
    /\ res.statusCode \in codes
    /\ state = "AWAITING_RESPONSE"

\* C11: when a 301 or 302 is followed and no redirectMethod option is set,
\* the redirected attempt has the method of the attempt that received the
\* redirect and the body that attempt was sent with.
C11_MethodAndPayloadKept ==
    (SentAfter({301, 302}) /\ attempt.options.redirectMethod = "")
        => /\ attempt.method = previous.method
           /\ attempt.body = previous.body

C11_Witness ==
    /\ SentAfter({301, 302})
    /\ attempt.options.redirectMethod = ""
    /\ attempt.method = "POST"
    /\ attempt.body = StringPayload.data

\* C12: when a 301 or 302 is followed and the redirectMethod option is set,
\* the redirected attempt has that method; a GET it turns a POST with a
\* payload into carries an empty body.
C12_RedirectMethodOverrides ==
    (SentAfter({301, 302}) /\ attempt.options.redirectMethod # "")
        => /\ attempt.method = attempt.options.redirectMethod
           /\ attempt.method = "GET" => attempt.body = <<>>

C12_Witness ==
    /\ SentAfter({301, 302})
    /\ attempt.options.redirectMethod = "GET"
    /\ previous.method = "POST"
    /\ previous.body # <<>>
    /\ attempt.method = "GET"

\* C13: a 303 is followed only when redirect303 is true.  Without it the 303
\* response is the caller's outcome, with no error and no further attempt,
\* even when the budget is positive; with it the redirected attempt is a
\* GET with no body, whatever the method and payload were.
C13_303OnlyWhenAllowed ==
    /\ (res.n = attempt.n /\ res.n > 0 /\ res.statusCode = 303
            /\ ~attempt.options.redirect303)
           => /\ state = "TERMINAL"
              /\ outcomes = <<[err |-> "", statusCode |-> 303]>>
    /\ (attempt.n >= 2 /\ res.n = attempt.n - 1 /\ res.statusCode = 303)
           => /\ attempt.options.redirect303
              /\ attempt.method = "GET"
              /\ attempt.body = <<>>
              /\ state # "SENDING"

C13_Witness ==
    /\ SentAfter({303})
    /\ previous.method = "POST"
    /\ previous.body # <<>>
    /\ attempt.method = "GET"

\* C14: when a 307 or 308 is followed, the redirected attempt has the method
\* of the attempt that received the redirect and is sent with the same body;
\* a payload stream that the first attempt consumed is sent again byte for
\* byte.
C14_PayloadSentAgain ==
    SentAfter({307, 308})
        => /\ attempt.method = previous.method
           /\ attempt.body = previous.body
           /\ (attempt.method = "POST" /\ call.options.payload.kind = "stream"
                   /\ call.method = "POST")
                  => attempt.body = Concat([i \in 1..MaxChunks |-> Chunk(i)])

C14_Witness ==
    /\ SentAfter({307, 308})
    /\ attempt.n = 2
    /\ attempt.method = "POST"
    /\ call.options.payload.kind = "stream"
    /\ stream = <<>>
    /\ Len(attempt.body) = 2 * MaxChunks


\* the redirect budget the caller passed (0 when unset or false)
N == Budget(call.options)

\* the attempt in flight has been answered with a status that its options
\* make one to follow
AnsweredFollowable ==
    /\ res.n = attempt.n
    /\ res.n > 0
    /\ redirectMethod(res.statusCode, attempt.method, attempt.options) # ""

MaximumReached == <<[err |-> "Maximum redirections reached", statusCode |-> 0]>>

WithoutLocation ==
    <<[err |-> "Received redirection without location", statusCode |-> 0]>>

\* C15: when the redirects option is unset, false or 0, a response with a
\* redirect status is handed to the caller as it is: no error, no second
\* attempt.
C15_NoRedirectsByDefault ==
    (call.options.redirects \in {NoRedirects, <<0>>} /\ res.n > 0)
        => /\ state = "TERMINAL"
           /\ outcomes = <<[err |-> "", statusCode |-> res.statusCode]>>
           /\ attempt.n = 1

C15_Witness ==
    /\ call.options.redirects = <<0>>
    /\ res.statusCode = 301
    /\ res.location # ""
    /\ state = "TERMINAL"

Follows == attempt.n >= 1 /\ attempt'.n = attempt.n + 1

C17_Step ==
    Follows =>
        IF log'.op = "next" /\ log'.change.field = "redirects"
        THEN attempt'.options.redirects = log'.change.value
        ELSE /\ Budget(attempt.options) >= 1
             /\ attempt'.options.redirects = <<Budget(attempt.options) - 1>>

C19_Step ==
    /\ attempt'.n \in {attempt.n, attempt.n + 1}
    /\ Follows
           => /\ res'.n = attempt.n
              /\ classify(attempt.options, attempt.method,
                          res'.statusCode, res'.location).kind = "follow"
              /\ outcomes' = <<>>
    /\ state = "TERMINAL" => UNCHANGED redirectVars

C19_OneInFlight ==
    /\ attempt.n - res.n \in {0, 1}
    /\ state \in {"SENDING", "AWAITING_RESPONSE"} <=> attempt.n - res.n = 1
    /\ Len(outcomes) <= 1
    /\ state = "TERMINAL" <=> Len(outcomes) = 1

\* C19: at most one attempt of a chain is in flight at any time; an attempt
\* is issued only after the response to the one before it has been received
\* and classified as a redirect to follow; the caller sees exactly one
\* outcome for the whole chain.
C19_Sequential ==
    /\ []C19_OneInFlight
    /\ [][C19_Step]_vars

C19_Witness ==
    /\ attempt.n = MaxRedirects + 1
    /\ res.n = attempt.n
    /\ state = "TERMINAL"
    /\ outcomes = <<[err |-> "", statusCode |-> 200]>>

\* the redirected attempt of a chain with a beforeRedirect function is
\* issued by the function's call of next, for the response that was
\* received, with the options the function left
C20_Step ==
    /\ (state # "REDIRECTING" /\ state' = "REDIRECTING")
           => /\ attempt.options.beforeRedirect
              /\ hook'.statusCode = res'.statusCode
              /\ hook'.headers = res'.location
              /\ hook'.location = IF res'.location \in Uris
                                  THEN res'.location
                                  ELSE OriginOf(attempt.uri) \o res'.location
              /\ hook'.redirectMethod # ""
              /\ attempt' = attempt
    /\ (Follows /\ attempt.options.beforeRedirect)
           => /\ state = "REDIRECTING"
              /\ log'.op = "next"
              /\ hook.statusCode = res.statusCode
              /\ attempt'.method = hook.redirectMethod
              /\ attempt'.uri = hook.location
              /\ CASE log'.change.field = "headers" ->
                          /\ attempt'.options.headers = log'.change.value
                          /\ attempt'.options.redirects = hook.redirectOptions.redirects
                   [] log'.change.field = "redirects" ->
                          /\ attempt'.options.redirects = log'.change.value
                          /\ attempt'.options.headers = hook.redirectOptions.headers
                   [] OTHER -> attempt'.options = hook.redirectOptions

\* C20: a configured beforeRedirect function is called for every followed
\* redirect, with the redirect method, the status code, the location, the
\* response headers and redirectOptions, before the redirected request is
\* issued; the request is issued only when the function calls next, and
\* with the changes the function made to redirectOptions.
C20_BeforeRedirect ==
    /\ [](state = "REDIRECTING" => hook.pending /\ res.n = attempt.n)
    /\ [][C20_Step]_vars

C20_Witness ==
    /\ attempt.n >= 2
    /\ log.op = "next"
    /\ log.change.field = "headers"
    /\ attempt.options.headers = "Modified"
    /\ previous.options.headers = ""

\* ------------------------------------- the claims on the caller's options

\* the redirected function is called in the step that issues a redirected
\* attempt, with the status code of the redirect, the uri the location led
\* to and the request just created, and in no other step
C21_Step ==
    /\ (Follows /\ call.options.redirected)
           => /\ log'.redirected = log.redirected + 1
              /\ log'.observed = [statusCode |-> res'.statusCode,
                                  location |-> attempt'.uri,
                                  req |-> attempt'.n]
              /\ res'.statusCode \in {301, 302, 303, 307, 308}
    /\ ~(Follows /\ call.options.redirected)
           => /\ log'.redirected = log.redirected
              /\ log'.observed = log.observed

\* C21: a configured redirected function is called exactly once for every
\* followed redirect, after the redirected request has been created, with
\* the status code, the location and the new request; it is not called for
\* the terminal response, so a chain that followed k redirects called it k
\* times.
C21_RedirectedOncePerRedirect ==
    /\ [](attempt.n >= 1 =>
              log.redirected = IF call.options.redirected
                               THEN attempt.n - 1 ELSE 0)
    /\ [](log.redirected > 0 => log.observed.req = attempt.n)
    /\ [][C21_Step]_vars

C21_Witness ==
    /\ call.options.redirected
    /\ state = "TERMINAL"
    /\ outcomes = <<[err |-> "", statusCode |-> 200]>>
    /\ attempt.n = 2
    /\ log.redirected = 1
    /\ log.observed = [statusCode |-> 301, location |-> "https://b/", req |-> 2]

\* C22: with the agent option set to an agent of the caller, every attempt
\* of the chain is handed to that agent: its addRequest has been called
\* once per attempt, k + 1 times after k followed redirects, and no agent
\* of wreck.agents has been called.
C22_AgentOnEveryAttempt ==
    (call.options.agent = "custom" /\ attempt.n >= 1)
        => /\ attempt.agent = "custom"
           /\ attempt.options.agent = "custom"
           /\ log.addRequest["custom"] = attempt.n
           /\ \A a \in Agents \ {"custom"} : log.addRequest[a] = 0

C22_Witness ==
    /\ call.options.agent = "custom"
    /\ attempt.n = 2
    /\ attempt.uri = "https://b/"
    /\ log.addRequest["custom"] = 2
    /\ state = "TERMINAL"
    /\ outcomes = <<[err |-> "", statusCode |-> 200]>>

\* the redirected attempt goes to the location when it is an absolute uri,
\* else to the location taken from the origin of the attempt that received
\* the redirect
C23_Step ==
    Follows =>
        attempt'.uri = IF res'.location \in Uris
                       THEN res'.location
                       ELSE OriginOf(attempt.uri) \o res'.location

\* C23: an absolute location is used as it is, whatever its scheme and
\* host; a relative location is resolved against the uri of the attempt
\* that received the redirect; the baseUrl of the call plays no part.
C23_LocationResolution ==
    [][C23_Step]_vars

C23_Witness ==
    /\ call.options.baseUrl = "http://a"
    /\ attempt.n = 2
    /\ previous.uri = "https://b/"
    /\ res.location = "/r"
    /\ attempt.uri = "https://b/r"

\* the call was refused for its options, before any request was made
Rejected ==
    /\ state = "TERMINAL"
    /\ outcomes = <<[err |-> InvalidOptions, statusCode |-> 0]>>
    /\ attempt.n = 0
    /\ \A a \in Agents : log.addRequest[a] = 0

\* both options were given, the agent as an agent, false or null
BothSet ==
    /\ call.options.agent # "unset"
    /\ call.options.rejectUnauthorized # "unset"

\* C24, as stated: a call with both agent and rejectUnauthorized fails
\* before any request is sent, unless the agent is false or null, which
\* is accepted.
C24_Original ==
    state # "IDLE" =>
        /\ (BothSet /\ call.options.agent \notin {"false", "null"}) => Rejected
        /\ (BothSet /\ call.options.agent \in {"false", "null"}) => ~Rejected

\* C24: a call with both agent and rejectUnauthorized fails before any
\* request is sent, unless the agent is null, which is accepted; no other
\* call is refused for these options.
C24_AgentAndRejectUnauthorized ==
    state # "IDLE" =>
        (Rejected <=> (BothSet /\ call.options.agent # "null"))

C24_Witness ==
    /\ call.options.agent = "custom"
    /\ call.options.rejectUnauthorized = "true"
    /\ Rejected

\* C25: rejectUnauthorized given with agent: false is refused; given with
\* agent: null it is accepted and the request is made.
C25_FalseAgentRejected ==
    (state # "IDLE" /\ call.options.rejectUnauthorized # "unset") =>
        /\ call.options.agent = "false" => Rejected
        /\ call.options.agent = "null" => (attempt.n >= 1 /\ ~Rejected)

C25_Witness ==
    /\ call.options.agent = "false"
    /\ call.options.rejectUnauthorized = "false"
    /\ Rejected

\* the chain has left its first attempt behind: a redirected attempt was
\* issued, or the redirect is with the beforeRedirect function
MovedOn == attempt.n >= 2 \/ state = "REDIRECTING"

\* an abort of the original request after the chain moved on changes
\* nothing of the chain
C29_Step ==
    (~log.aborted /\ log'.aborted /\ MovedOn)
        => UNCHANGED <<state, attempt, previous, hook, res, outcomes>>

\* C29: aborting the request handle of the original request once the chain
\* has moved on to a redirected attempt does not abort that attempt: the
\* chain goes on and ends with the attempt's own outcome.
C29_AbortAfterRedirect ==
    /\ []((state = "TERMINAL" /\ outcomes[1].err = "ECONNRESET")
              => (log.aborted /\ attempt.n = 1))
    /\ [][C29_Step]_vars

C29_Witness ==
    /\ log.aborted
    /\ attempt.n = 2
    /\ state = "TERMINAL"
    /\ outcomes = <<[err |-> "", statusCode |-> 200]>>

\* ------------------------------------------------------ the claims on read

\* C27: read with a positive timeout fails with a 408 error when the stream
\* has not ended within that many milliseconds, chunks received or not: the
\* read is never open beyond the window, and a 408 comes at its end only;
\* with a timeout of 0 or less there is no timer, and the read ends with
\* the end of the stream and hands over the payload.
C27_ReadTimeout ==
    /\ (reader.state = "READING" /\ reader.timeout > 0)
           => (clock <= reader.timeout /\ reader.timer = <<reader.timeout>>)
    /\ (reader.state = "READING" /\ reader.timeout <= 0)
           => reader.timer = <<>>
    /\ reader.state = "DONE"
           => /\ Len(reader.results) = 1
              /\ IF reader.results[1].statusCode = 408
                 THEN reader.timeout > 0 /\ clock = reader.timeout
                 ELSE /\ incoming = <<>>
                      /\ reader.results[1] =
                             [err |-> "", statusCode |-> 0,
                              payload |-> Concat(reader.buffers)]

C27_Witness ==
    /\ reader.state = "DONE"
    /\ reader.timeout = 1
    /\ reader.results[1].statusCode = 408
    /\ reader.buffers = <<Chunk(1)>>
    /\ incoming = <<Chunk(2)>>

\* ------------------------------- the claims on timeouts and on abort

\* the step hands the caller of request r a 504
TimesOut(r) ==
    /\ reqs[r].delivered = <<>>
    /\ reqs'[r].delivered = <<GatewayTimeout>>

\* a 504 comes from the timer of the request going off, and the request is
\* aborted with it: flagged, and its socket, if it has one, destroyed
C26_Step ==
    \A r \in Requests :
        TimesOut(r) => /\ reqs[r].timer
                       /\ reqs[r].timeout > 0
                       /\ reqs'[r].aborted
                       /\ ~reqs'[r].timer
                       /\ onSocket[r] # NoSocket => destroyed'[onSocket[r]]

\* C26: with a positive timeout and no response in time the request is
\* aborted and its caller handed a 504 error, the one outcome of the call,
\* whether the request was on a socket waiting for the server or in the
\* pending queue of the agent; without a timeout no 504 is handed over.
C26_GatewayTimeout ==
    /\ [](\A r \in Requests :
             /\ reqs[r].timer <=> /\ reqs[r].created
                                  /\ reqs[r].timeout > 0
                                  /\ reqs[r].delivered = <<>>
             /\ GatewayTimeout \in Range(reqs[r].delivered)
                    => /\ reqs[r].delivered = <<GatewayTimeout>>
                       /\ reqs[r].timeout > 0
                       /\ reqs[r].aborted)
    /\ [][C26_Step]_vars

C26_Witness ==
    \E r \in Requests, q \in Requests :
        /\ onSocket[r] # NoSocket
        /\ Dead(onSocket[r])
        /\ reqs[r].delivered = <<GatewayTimeout>>
        /\ q \in Queued
        /\ reqs[q].delivered = <<GatewayTimeout>>

\* a request aborted before its caller was handed a response is never
\* handed one; what it is handed is the connection-reset error, or the 504
\* of its own timer when it has one
C28_Step ==
    \A r \in Requests :
        (reqs[r].aborted /\ reqs[r].delivered = <<>>)
            => /\ reqs'[r].delivered \in
                      {<<>>, <<ConnectionReset>>, <<GatewayTimeout>>}
               /\ reqs[r].timeout = 0
                      => reqs'[r].delivered \in {<<>>, <<ConnectionReset>>}

C30_Step ==
    \A r \in Requests :
        (TimesOut(r) /\ r \in Queued)
            => UNCHANGED <<idleSockets, sockets, requests, onSocket, destroyed>>

\* every request there will be has been created, and those still pending
\* or on a socket have been aborted
OnlyAbortedLeft ==
    /\ \A r \in 1..MaxIssued : r \in Requests => reqs[r].created
    /\ \A r \in Live : reqs[r].aborted
    /\ Live # {}

\* C30: with one socket per name a second request waits in the pending
\* queue; timing out there it is handed a 504 while the first request
\* keeps its socket; the socket the timed-out request is given later is
\* destroyed at once and never pooled, the request is over when that socket
\* closes, and with only such requests left the agent ends with no socket
\* and no pending request.
C30_QueuedTimeoutCleansUp ==
    /\ [](\A r \in Requests :
             (reqs[r].aborted /\ onSocket[r] # NoSocket)
                 => (Dead(onSocket[r]) /\ onSocket[r] \notin Idle))
    /\ [](\A r \in Queued : Cardinality(Open) >= maxSockets)
    /\ [][C30_Step]_vars
    /\ \A r \in Requests :
          (reqs[r].aborted /\ onSocket[r] # NoSocket) ~> (r \notin Live)
    /\ OnlyAbortedLeft ~> (Open = {} /\ Queued = {})

C30_Witness ==
    /\ reqs[1].delivered = <<Response>>
    /\ reqs[2].delivered = <<GatewayTimeout>>
    /\ reqs[2].by = "timeout"
    /\ last.op = "close"
    /\ last.socket # NoSocket
    /\ Live = {}
    /\ Open = {}
    /\ Queued = {}


\* --------------------------------------- the claims on the payload of read

\* the bytes the Recorder holds
Recorded == Len(Concat(reader.buffers))

\* the chunk the stream delivered last when the read ended on it
Refused == reader.stream[Len(reader.buffers) + 1]

ClosedPrematurely == Handed("Payload stream closed prematurely", 500, <<>>)

\* the stream ended the read by an event other than its normal end
EndedEarly == reader.by \in EarlyEvents \cup {"error"}

\* C32 as first stated: a read ended by 'close', 'error' or 'aborted' fails
\* with 'Payload stream closed prematurely', unless the error emitted is a
\* Boom error, which is handed over unchanged.
C32_Original ==
    EndedEarly
        => reader.results =
               IF reader.by = "error" /\ reader.emitted.isBoom
               THEN <<Handed(reader.emitted.message,
                             reader.emitted.statusCode, <<>>)>>
               ELSE <<ClosedPrematurely>>

\* C32: a read ended by 'close' or 'aborted' before the normal end of the
\* stream fails with 'Payload stream closed prematurely', whatever part of
\* the stream was delivered; a read ended by 'error' never fails with that
\* message, and hands over a Boom error unchanged.
C32_ClosedPrematurely ==
    /\ reader.by \in EarlyEvents
           => (reader.state = "DONE" /\ reader.results = <<ClosedPrematurely>>)
    /\ (reader.state = "DONE" /\ reader.results[1] = ClosedPrematurely)
           => reader.by \in EarlyEvents
    /\ (reader.by = "error" /\ reader.emitted.isBoom)
           => /\ reader.results[1].err = reader.emitted.message
              /\ reader.results[1].statusCode = reader.emitted.statusCode

C32_Witness ==
    /\ reader.by = "close"
    /\ reader.buffers = <<Chunk(1)>>
    /\ incoming = <<Chunk(2)>>
    /\ reader.results = <<ClosedPrematurely>>

\* C33: a read ended by an 'error' event fails with a 500 error whose
\* message is 'Payload stream error: ' followed by the message of the error
\* emitted; when the error emitted is a Boom error the read fails with that
\* error, its message and its status code kept.
C33_StreamError ==
    reader.by = "error"
        => /\ reader.state = "DONE"
           /\ reader.results =
                  IF reader.emitted.isBoom
                  THEN <<Handed(reader.emitted.message,
                                reader.emitted.statusCode, <<>>)>>
                  ELSE <<Handed("Payload stream error: "
                                    \o reader.emitted.message, 500, <<>>)>>

C33_Witness ==
    /\ reader.by = "error"
    /\ ~reader.emitted.isBoom
    /\ reader.results = <<Handed("Payload stream error: my error", 500, <<>>)>>

\* a Boom error emitted by the stream was handed over as it is
C33_WitnessBoom ==
    /\ reader.by = "error"
    /\ reader.emitted.isBoom
    /\ reader.results = <<Handed("You messed up", 400, <<>>)>>

\* the buffers a caller makes a stream of
Buffers == { Concat(chunks) : chunks \in Readables }

\* a Tap that is written the chunks one after the other: what it has
\* recorded and what it has passed on
RECURSIVE throughTap(_, _)
throughTap(t, chunks) ==
    IF chunks = <<>>
    THEN t
    ELSE LET n == transform(t.buffers, Head(chunks))
         IN  throughTap([buffers |-> n.buffers, out |-> Append(t.out, n.out)],
                        Tail(chunks))

\* the read ended with the stream and the payload is handed over raw
ReadRaw == reader.by = "finish" /\ reader.json = "false"

C34_WitnessRoundTrip ==
    /\ ReadRaw
    /\ reader.stream = toReadableStream(<<2, 12, 1, 11>>)
    /\ reader.buffers = <<(<<2, 12, 1, 11>>)>>
    /\ reader.results[1].payload = <<2, 12, 1, 11>>

\* the empty buffer made the round trip through a stream
C34_WitnessEmpty ==
    /\ ReadRaw
    /\ reader.stream = toReadableStream(<<>>)
    /\ reader.results[1].payload = <<>>

\* the stream ended and its body was a JSON text sent as text/plain
JsonAsText ==
    /\ reader.by = "finish"
    /\ reader.source.contentType = "text/plain"
    /\ Concat(reader.buffers) \in JsonTexts

\* C35: for a non-empty text/plain body that holds valid JSON text, read
\* with json 'strict' fails with a 406 error, with json 'force' hands over
\* the parsed value, and with json true or false hands over the raw buffer.
C35_JsonModes ==
    JsonAsText
        => /\ reader.state = "DONE"
           /\ Len(reader.results) = 1
           /\ reader.json = "strict"
                  => /\ reader.results[1].statusCode = 406
                     /\ reader.results[1].err # ""
                     /\ reader.results[1].payload = <<>>
           /\ reader.json = "force"
                  => reader.results[1] =
                         Handed("", 0, Value(Concat(reader.buffers)))
           /\ reader.json \in {"true", "false"}
                  => reader.results[1] = Handed("", 0, Concat(reader.buffers))

C35_Witness ==
    /\ JsonAsText
    /\ reader.json = "strict"
    /\ reader.results[1].statusCode = 406

\* the same body was parsed under 'force'
C35_WitnessForce ==
    /\ JsonAsText
    /\ reader.json = "force"
    /\ reader.results[1].payload = Value(Chunk(1))

\* ------------------------------------------------- the claims on events

\* the names of the events emitted for request r, in order
EventNames(r) == [i \in 1..Len(reqs[r].emitted) |-> reqs[r].emitted[i].name]

\* the 'response' events emitted for request r
ResponseEvents(r) ==
    { i \in 1..Len(reqs[r].emitted) : reqs[r].emitted[i].name = "response" }

C37_IdleOnce ==
    /\ \A name \in DOMAIN idleSockets :
           \A i, j \in 1..Len(idleSockets[name]) :
               idleSockets[name][i] = idleSockets[name][j] => i = j
    /\ \A n1, n2 \in DOMAIN idleSockets :
           n1 # n2 => Range(idleSockets[n1]) \cap Range(idleSockets[n2]) = {}

\* the sockets on the idle stack of a name that a request could be given
UsableIdle(name) ==
    IF name \in DOMAIN idleSockets
    THEN { s \in Range(idleSockets[name]) : ~Dead(s) }
    ELSE {}

\* C38: between two operations of the pool, a name with a pending request
\* has no usable socket on its idle stack.
C38_NoIdleWhilePending ==
    \A name \in Names : requests[name] # <<>> => UsableIdle(name) = {}

C38_Witness ==
    \E name \in Names :
        /\ requests[name] # <<>>
        /\ last.op = "free"
        /\ last.name = name
        /\ ~Dead(last.socket)
        /\ \E r \in Requests : onSocket[r] = last.socket
        /\ UsableIdle(name) = {}

\* --------------------------------------------- the claims on the outcome

\* request r is over: it was created, the agent holds it no more and it has
\* no 'error' left to emit
Over(r) == reqs[r].created /\ r \notin Live /\ ~reqs[r].hangUp

\* the outcome a caller was handed stays what it is
C39_Step ==
    \A r \in Requests :
        reqs[r].delivered # <<>> => reqs'[r].delivered = reqs[r].delivered

\* C39: a call of request hands its caller exactly one outcome, a response
\* or an error, however the response, a socket error, the timer and an abort
\* interleave: never a second one (an error after the timer has fired, a
\* timer that fires while the socket closes), never another one later, and
\* never none once the request is over.
C39_ExactlyOneOutcome ==
    /\ [](\A r \in Requests :
             /\ Len(reqs[r].delivered) <= 1
             /\ Over(r) => Len(reqs[r].delivered) = 1)
    /\ [][C39_Step]_vars

\* the timer fired first and the error of the abort came after it
C39_Witness ==
    /\ reqs[1].delivered = <<GatewayTimeout>>
    /\ reqs[1].by = "timeout"
    /\ ~reqs[1].hangUp
    /\ Over(1)

\* ------------------------------------- the claims on the end of the chain

\* a chain that has ended issues no attempt and hands over nothing more
C40_Step ==
    state = "TERMINAL"
        => (state' = "TERMINAL" /\ attempt' = attempt /\ outcomes' = outcomes)

=============================================================================
